---------------------------- MODULE Spec2Model ----------------------------
(***************************************************************************)
(* A model of the skenario discrete-event simulator: the movement priority *)
(* queue, the environment's schedule and driver loop, and one replica's    *)
(* request-processing stock (single CPU, sliced in quanta).                *)
(*                                                                         *)
(* Times are nanoseconds since the Unix epoch (time.Time.UnixNano), and    *)
(* durations are nanoseconds (time.Duration).                              *)
(***************************************************************************)
EXTENDS Integers, Sequences, FiniteSets, TLC

VARIABLES
    mpq,        \* the movement priority queue: [heap, closed]
    pqOut,      \* result of the last direct queue call (queue-only runs)
    pqRejected, \* the movements EnqueueMovement refused
    nextId,     \* identity of the next movement created (a Go pointer)
    pc,         \* "queue" | "setup" | "running" | "done"
    current,    \* the environment's current movement time
    completed,  \* completed trace: [movement, moved]
    ignored,    \* ignored trace: [movement, reason]
    runErr,     \* whether Run ended with an error
    calls,      \* every AddToSchedule call so far, with what it returned
    stocks,     \* plain stocks: name -> entities held, oldest first
    rps,        \* the processing stock's processesActive/OnCpu/Terminated
    reqs,       \* request number -> cpuSecondsRequired/Consumed, startTime
    cpuUsage,   \* the processing stock's activeTimeSlices
    config,     \* the autoscaler's configuration, <<>> without an autoscaler
    plugin,     \* the policy: the result of the i-th Scale call
    scaled,     \* every Scale call so far: [at, count, desired, err]
    reqNumber,  \* the package-level request counter
    firstRun,   \* the traces of the process's first run, once it has run again
    sampled,    \* the last evaluation of cpuUsage.usage: [at, active]
    front,      \* the program around the run (HTTP handler, CLI), <<>> if none
    replicas,   \* replica number -> Activate/Deactivate calls, endpoint
    stats,      \* what the autoscaler's ticks recorded: [stat, at]
    producer    \* the movement of an EnqueueMovement call between its two heap calls

envVars == <<pc, current, completed, ignored, runErr, calls, stocks, rps, reqs,
             cpuUsage, config, plugin, scaled, reqNumber, firstRun, sampled,
             front, replicas, stats, producer>>

vars == <<mpq, pqOut, pqRejected, nextId, envVars>>

(***************************************************************************)
(* Bounds of the model.                                                    *)
(***************************************************************************)
MaxPQOps == 4

MaxRequests == 2

MaxTestMovements == 1

MaxReplicas == 2

(***************************************************************************)
(* Durations.                                                              *)
(***************************************************************************)
Nanosecond == 1

Millisecond == 1000000 * Nanosecond

(***************************************************************************)
(* Movements.  A movement is created by NewMovement(kind, occursAt, from,  *)
(* to); the id stands for the identity of the Go value.                    *)
(***************************************************************************)
NewMovement(id, kind, occursAt, from, to) ==
    [id |-> id, kind |-> kind, occursAt |-> occursAt, from |-> from, to |-> to]

NoMovement == NewMovement(0, "nil", 0, "nil", "nil")

\* The elements of a sequence, and the times of a sequence of movements.
Elems(s) == {s[i] : i \in 1..Len(s)}

TimesOf(s) == {s[i].occursAt : i \in 1..Len(s)}

(***************************************************************************)
(* strconv.FormatInt(n, 10): the decimal rendering of n as a sequence of   *)
(* character codes ('-' is 45, '0'..'9' are 48..57).                       *)
(***************************************************************************)
RECURSIVE FormatUint(_)
FormatUint(n) ==
    IF n < 10 THEN <<48 + n>>
    ELSE Append(FormatUint(n \div 10), 48 + (n % 10))

FormatInt(n) == IF n < 0 THEN <<45>> \o FormatUint(0 - n) ELSE FormatUint(n)

occursAtToKeyWithKind(movement) == <<movement.kind, FormatInt(movement.occursAt)>>

occursAtToKey(movement) == FormatInt(movement.occursAt)

leftMovementIsLater(left, right) == left.occursAt > right.occursAt

leftMovementIsEarlier(left, right) == left.occursAt < right.occursAt

(***************************************************************************)
(* The heap behind the queue, cache.NewHeap(occursAtToKey,                 *)
(* leftMovementIsEarlier): a binary heap in a slice (container/heap) with  *)
(* an index of the keys it holds.  Slice index i is sequence index i + 1.  *)
(***************************************************************************)
Swap(h, i, j) == [h EXCEPT ![i + 1] = h[j + 1], ![j + 1] = h[i + 1]]

RECURSIVE HeapUp(_, _)
HeapUp(h, j) ==
    LET i == (j - 1) \div 2
    IN  IF j = 0 \/ i = j \/ ~leftMovementIsEarlier(h[j + 1], h[i + 1])
        THEN h
        ELSE HeapUp(Swap(h, i, j), i)

RECURSIVE HeapDown(_, _, _)
HeapDown(h, i, n) ==
    LET j1 == 2 * i + 1
        j2 == j1 + 1
        j  == IF j2 < n /\ leftMovementIsEarlier(h[j2 + 1], h[j1 + 1])
              THEN j2 ELSE j1
    IN  IF j1 >= n THEN h
        ELSE IF ~leftMovementIsEarlier(h[j + 1], h[i + 1]) THEN h
        ELSE HeapDown(Swap(h, i, j), j, n)

HeapPush(h, x) == HeapUp(Append(h, x), Len(h))

\* container/heap.Pop: swap the root with the last element, sift the new
\* root down over the first n elements, cut the last element off.
HeapPopRest(h) ==
    LET n == Len(h) - 1
    IN  SubSeq(HeapDown(Swap(h, 0, n), 0, n), 1, n)

HeapFix(h, i) ==
    LET d == HeapDown(h, i, Len(h))
    IN  IF d = h THEN HeapUp(h, i) ELSE d

HeapIndexOfKey(h, key) ==
    IF \E i \in 1..Len(h) : occursAtToKey(h[i]) = key
    THEN CHOOSE i \in 1..Len(h) : occursAtToKey(h[i]) = key
    ELSE 0

\* Heap.GetByKey: whether an item with this key is held.
HeapGetByKey(h, key) == HeapIndexOfKey(h, key) # 0

\* Heap.Add: refuses on a closed heap; an item whose key is held replaces
\* the held one and is re-sifted; any other item is pushed.
HeapAdd(q, obj) ==
    LET key == occursAtToKey(obj)
        i   == HeapIndexOfKey(q.heap, key)
    IN  IF q.closed THEN [queue |-> q, err |-> TRUE]
        ELSE IF i # 0
        THEN [queue |-> [q EXCEPT !.heap = HeapFix([q.heap EXCEPT ![i] = obj], i - 1)],
              err |-> FALSE]
        ELSE [queue |-> [q EXCEPT !.heap = HeapPush(q.heap, obj)], err |-> FALSE]

(***************************************************************************)
(* movementPQ.                                                             *)
(***************************************************************************)
NewMovementPriorityQueue == [heap |-> <<>>, closed |-> FALSE]

EnqueueMovementNoExistsCheck(q, movement) == HeapAdd(q, movement)

EnqueueMovement(q, movement) ==
    LET key == occursAtToKey(movement)
    IN  IF HeapGetByKey(q.heap, key)
        THEN [queue |-> q, err |-> TRUE]
        ELSE HeapAdd(q, movement)

\* Heap.Pop waits while the heap is empty and open.
DequeueBlocks(q) == q.heap = <<>> /\ ~q.closed

CloseReopening(q) == [q EXCEPT !.closed = ~@]

\* Heap.Close: the heap is marked closed; what it holds stays.
Close(q) == [q EXCEPT !.closed = TRUE]

IsClosed(q) == q.closed

\* The earliest movement is returned and stays in the heap.
DequeueMovementPeeking(q) ==
    IF q.heap = <<>>
    THEN [queue |-> q, movement |-> NoMovement, err |-> FALSE, closed |-> TRUE]
    ELSE [queue |-> q, movement |-> q.heap[1], err |-> FALSE, closed |-> FALSE]

DequeueMovement(q) ==
    IF q.heap = <<>>
    THEN [queue |-> q, movement |-> NoMovement, err |-> FALSE, closed |-> TRUE]
    ELSE [queue |-> [q EXCEPT !.heap = HeapPopRest(q.heap)],
          movement |-> q.heap[1], err |-> FALSE, closed |-> FALSE]

(***************************************************************************)
(* The queue on its own: any sequence of EnqueueMovement and               *)
(* DequeueMovement calls.                                                  *)
(***************************************************************************)
PQTimes == {0 - 1, 0, 7, 10, 123456789}

PQKinds == {"interrupt_process", "complete_request"}

InitPQ ==
    /\ mpq = NewMovementPriorityQueue
    /\ pqOut = [op |-> "none", movement |-> NoMovement, err |-> FALSE,
                before |-> <<>>]
    /\ pqRejected = {}
    /\ nextId = 1
    /\ pc = "queue"
    /\ current = 0
    /\ completed = <<>>
    /\ ignored = <<>>
    /\ runErr = FALSE
    /\ calls = <<>>
    /\ stocks = <<>>
    /\ rps = <<>>
    /\ reqs = <<>>
    /\ cpuUsage = <<>>
    /\ config = <<>>
    /\ plugin = <<>>
    /\ scaled = <<>>
    /\ reqNumber = 0
    /\ firstRun = <<>>
    /\ sampled = <<>>
    /\ front = <<>>
    /\ replicas = <<>>
    /\ stats = <<>>
    /\ producer = NoMovement

PQEnqueueOf(times, kinds) ==
    /\ nextId <= MaxPQOps
    /\ \E t \in times, k \in kinds :
         LET m == NewMovement(nextId, k, t, "test from stock", "test to stock")
             r == EnqueueMovement(mpq, m)
         IN  /\ mpq' = r.queue
             /\ pqOut' = [op |-> "enqueue", movement |-> m, err |-> r.err,
                          before |-> mpq.heap]
             /\ pqRejected' = IF r.err THEN pqRejected \cup {m} ELSE pqRejected
             /\ nextId' = nextId + 1
             /\ UNCHANGED envVars

PQEnqueue == PQEnqueueOf(PQTimes, PQKinds)

PQDequeue ==
    /\ ~DequeueBlocks(mpq)
    /\ LET r == DequeueMovement(mpq)
       IN  /\ mpq' = r.queue
           /\ pqOut' = [op |-> "dequeue", movement |-> r.movement, err |-> r.err,
                        before |-> mpq.heap, closed |-> r.closed]
           /\ UNCHANGED <<pqRejected, nextId, envVars>>

NextPQ == PQEnqueue \/ PQDequeue

SpecPQ == InitPQ /\ [][NextPQ]_vars

(***************************************************************************)
(* The queue on its own, with Close among the calls.                       *)
(***************************************************************************)
ShutdownTimes == {0, 7, 10}

PQOffer == PQEnqueueOf(ShutdownTimes, {"complete_request"})

PQClose ==
    /\ pc = "queue"
    /\ mpq' = Close(mpq)
    /\ pqOut' = [op |-> "close", movement |-> NoMovement, err |-> FALSE,
                 before |-> mpq.heap, wasClosed |-> IsClosed(mpq)]
    /\ UNCHANGED <<pqRejected, nextId, envVars>>

NextPQShutdown == PQOffer \/ PQDequeue \/ PQClose

SpecPQShutdown == InitPQ /\ [][NextPQShutdown]_vars

(***************************************************************************)
(* The queue under three threads: a consumer that calls DequeueMovement    *)
(* and waits inside Heap.Pop while the heap is empty and open, a producer  *)
(* that calls EnqueueMovement, and a thread that calls Close.  Each heap   *)
(* call holds the heap's lock, so the steps are the heap calls:            *)
(* EnqueueMovement is GetByKey followed by Add, and a waiting Pop goes on  *)
(* after the broadcast of Add or Close.  pc is the consumer's position and *)
(* pqOut what its last call returned, with every movement returned so far. *)
(***************************************************************************)
ReturnedSoFar == IF "returned" \in DOMAIN pqOut THEN pqOut.returned ELSE <<>>

\* DequeueMovement returns, after waiting or not.
PopReturns(waited) ==
    LET r == DequeueMovement(mpq)
    IN  /\ mpq' = r.queue
        /\ pqOut' = [op |-> "dequeue", movement |-> r.movement, err |-> r.err,
                     before |-> mpq.heap, closed |-> r.closed,
                     waited |-> waited,
                     returned |-> IF r.movement = NoMovement THEN ReturnedSoFar
                                  ELSE Append(ReturnedSoFar, r.movement)]
        /\ pc' = "queue"

ThreadDequeue ==
    /\ pc = "queue"
    /\ IF DequeueBlocks(mpq)
       THEN pc' = "blocked" /\ UNCHANGED <<mpq, pqOut>>
       ELSE PopReturns(FALSE)
    /\ UNCHANGED <<pqRejected, nextId, current, completed, ignored, runErr,
                   calls, stocks, rps, reqs, cpuUsage, config, plugin, scaled,
                   reqNumber, firstRun, sampled, front, replicas, stats,
                   producer>>

ThreadWake ==
    /\ pc = "blocked"
    /\ ~DequeueBlocks(mpq)
    /\ PopReturns(TRUE)
    /\ UNCHANGED <<pqRejected, nextId, current, completed, ignored, runErr,
                   calls, stocks, rps, reqs, cpuUsage, config, plugin, scaled,
                   reqNumber, firstRun, sampled, front, replicas, stats,
                   producer>>

\* EnqueueMovement up to GetByKey.
ThreadEnqueueGetByKey ==
    /\ producer = NoMovement
    /\ nextId <= MaxPQOps
    /\ \E t \in ShutdownTimes :
         LET m == NewMovement(nextId, "complete_request", t,
                              "test from stock", "test to stock")
         IN  IF HeapGetByKey(mpq.heap, occursAtToKey(m))
             THEN /\ pqRejected' = pqRejected \cup {m}
                  /\ producer' = NoMovement
             ELSE /\ pqRejected' = pqRejected
                  /\ producer' = m
    /\ nextId' = nextId + 1
    /\ UNCHANGED <<mpq, pqOut, pc, current, completed, ignored, runErr,
                   calls, stocks, rps, reqs, cpuUsage, config, plugin, scaled,
                   reqNumber, firstRun, sampled, front, replicas, stats>>

\* EnqueueMovement from heap.Add on.
ThreadEnqueueAdd ==
    /\ producer # NoMovement
    /\ LET r == HeapAdd(mpq, producer)
       IN  /\ mpq' = r.queue
           /\ pqRejected' = IF r.err THEN pqRejected \cup {producer}
                             ELSE pqRejected
    /\ producer' = NoMovement
    /\ UNCHANGED <<pqOut, nextId, pc, current, completed, ignored, runErr,
                   calls, stocks, rps, reqs, cpuUsage, config, plugin, scaled,
                   reqNumber, firstRun, sampled, front, replicas, stats>>

ThreadClose ==
    /\ ~IsClosed(mpq)
    /\ mpq' = Close(mpq)
    /\ UNCHANGED <<pqOut, pqRejected, nextId, envVars>>

NextPQThreads ==
    ThreadDequeue \/ ThreadWake \/ ThreadEnqueueGetByKey \/ ThreadEnqueueAdd
        \/ ThreadClose

SpecPQThreads == InitPQ /\ [][NextPQThreads]_vars

(***************************************************************************)
(* Entities: a kind and a number (request-<number>).                       *)
(***************************************************************************)
NewEntity(kind, number) == [kind |-> kind, number |-> number]

NilEntity == NewEntity("nil", 0)

ScenarioEntity == NewEntity("Scenario", 0)

AutoscalerEntity == NewEntity("Autoscaler", 0)

DesiredEntity == NewEntity("Desired", 0)

(***************************************************************************)
(* The environment.  NewEnvironment(startAt, runFor) halts at              *)
(* startAt + runFor.                                                       *)
(***************************************************************************)
startAt == 0

RunFor == 1000 * Millisecond

HaltTime == startAt + RunFor

OccursInPast == "OccursInPast"

OccursAfterHalt == "ScheduledToOccurAfterHalt"

OccursSimultaneouslyWithAnotherMovement == "OccursSimultaneouslyWithAnotherMovement"

FromStockIsEmpty == "FromStockIsEmpty"

\* The state an operation works on, as one record.
World ==
    [mpq |-> mpq, nextId |-> nextId, pc |-> pc, current |-> current,
     completed |-> completed, ignored |-> ignored, runErr |-> runErr,
     calls |-> calls, stocks |-> stocks, rps |-> rps, reqs |-> reqs,
     cpuUsage |-> cpuUsage, config |-> config, plugin |-> plugin,
     scaled |-> scaled,
     reqNumber |-> reqNumber, firstRun |-> firstRun, sampled |-> sampled,
     front |-> front, replicas |-> replicas, stats |-> stats,
     producer |-> producer]

Install(W) ==
    /\ mpq' = W.mpq
    /\ nextId' = W.nextId
    /\ pc' = W.pc
    /\ current' = W.current
    /\ completed' = W.completed
    /\ ignored' = W.ignored
    /\ runErr' = W.runErr
    /\ calls' = W.calls
    /\ stocks' = W.stocks
    /\ rps' = W.rps
    /\ reqs' = W.reqs
    /\ cpuUsage' = W.cpuUsage
    /\ config' = W.config
    /\ plugin' = W.plugin
    /\ scaled' = W.scaled
    /\ reqNumber' = W.reqNumber
    /\ firstRun' = W.firstRun
    /\ sampled' = W.sampled
    /\ front' = W.front
    /\ replicas' = W.replicas
    /\ stats' = W.stats
    /\ producer' = W.producer

Ignore(W, movement, reason) ==
    [W EXCEPT !.ignored = Append(@, [movement |-> movement, reason |-> reason])]

\* AddToSchedule(NewMovement(kind, occursAt, from, to)): the movement is
\* refused, with an ignored entry, when it is in the past of the current
\* time, after the halt time, or at the time of an enqueued movement.
AddToScheduleWithoutHaltCheck(W, kind, occursAt, from, to) ==
    LET m == NewMovement(W.nextId, kind, occursAt, from, to)
        r == EnqueueMovement(W.mpq, m)
        reason == IF occursAt < W.current THEN OccursInPast
                  ELSE IF r.err THEN OccursSimultaneouslyWithAnotherMovement
                  ELSE "scheduled"
        call == [movement |-> m, added |-> reason = "scheduled",
                 current |-> W.current, pending |-> TimesOf(W.mpq.heap)]
        W1 == [W EXCEPT !.nextId = @ + 1, !.calls = Append(@, call)]
    IN  IF reason = "scheduled" THEN [W1 EXCEPT !.mpq = r.queue]
        ELSE Ignore(W1, m, reason)

AddToSchedule(W, kind, occursAt, from, to) ==
    LET m == NewMovement(W.nextId, kind, occursAt, from, to)
        r == EnqueueMovement(W.mpq, m)
        reason == IF occursAt < W.current THEN OccursInPast
                  ELSE IF occursAt > HaltTime THEN OccursAfterHalt
                  ELSE IF r.err THEN OccursSimultaneouslyWithAnotherMovement
                  ELSE "scheduled"
        call == [movement |-> m, added |-> reason = "scheduled",
                 current |-> W.current, pending |-> TimesOf(W.mpq.heap)]
        W1 == [W EXCEPT !.nextId = @ + 1, !.calls = Append(@, call)]
    IN  IF reason = "scheduled" THEN [W1 EXCEPT !.mpq = r.queue]
        ELSE Ignore(W1, m, reason)

(***************************************************************************)
(* Plain stocks (simulator.NewThroughStock, NewSourceStock, NewSinkStock): *)
(* first in, first out; only entities of the stocked kind may be added.    *)
(***************************************************************************)
PlainStocks ==
    {"BeforeScenario", "RunningScenario", "HaltedScenario", "RequestsRouting",
     "RequestsComplete", "test from stock", "test to stock", "Desired",
     "DesiredSource", "DesiredSink", "ReplicasLaunching", "ReplicasActive",
     "ReplicasTerminating"}

KindStocked(name) ==
    CASE name \in {"BeforeScenario", "RunningScenario", "HaltedScenario"} -> "Scenario"
      [] name \in {"RequestsRouting", "RequestsComplete"} -> "Request"
      [] name \in {"Desired", "DesiredSource", "DesiredSink"} -> "Desired"
      [] name \in {"ReplicasLaunching", "ReplicasActive", "ReplicasTerminating"}
            -> "Replica"
      [] OTHER -> "test kind"

ThroughStockAdd(W, name, entity) ==
    IF entity.kind # KindStocked(name) THEN [W EXCEPT !.runErr = TRUE]
    ELSE [W EXCEPT !.stocks[name] = Append(@, entity)]

ThroughStockRemove(W, name) ==
    IF W.stocks[name] = <<>> THEN [world |-> W, entity |-> NilEntity]
    ELSE [world |-> [W EXCEPT !.stocks[name] = Tail(@)],
          entity |-> Head(W.stocks[name])]

(***************************************************************************)
(* The request entity and the requests processing stock.                   *)
(***************************************************************************)
NewRequestEntityFields(cpuSecondsRequired) ==
    [cpuSecondsRequired |-> cpuSecondsRequired, cpuSecondsConsumed |-> 0,
     startTime |-> <<>>]

cpuSecondsRequiredInAll(re) == re.cpuSecondsRequired

cpuSecondsRemaining(re) == re.cpuSecondsRequired - re.cpuSecondsConsumed

NewRequestsProcessingStock ==
    [processesActive |-> <<>>, processesOnCpu |-> <<>>,
     processesTerminated |-> <<>>]

RpsCount(p) == Len(p.processesActive) + Len(p.processesOnCpu)

\* make([]*simulator.Entity, n): a slice of n nil pointers.
MakeEntities(n) == [i \in 1..n |-> NilEntity]

\* EntitiesInStock: the slice made with the length of Count(), with the
\* entities of active and of onCpu appended to it.
RpsEntitiesInStock(p) ==
    (MakeEntities(Len(p.processesActive) + Len(p.processesOnCpu))
        \o p.processesActive) \o p.processesOnCpu

RpsRemoveFromAnyLane(W) ==
    IF Len(W.rps.processesTerminated) > 0
    THEN [world |-> [W EXCEPT !.rps.processesTerminated = Tail(@)],
          entity |-> Head(W.rps.processesTerminated)]
    ELSE IF Len(W.rps.processesActive) > 0
    THEN [world |-> [W EXCEPT !.rps.processesActive = Tail(@)],
          entity |-> Head(W.rps.processesActive)]
    ELSE [world |-> W, entity |-> NilEntity]

RpsRemove(W) ==
    IF Len(W.rps.processesTerminated) > 0
    THEN [world |-> [W EXCEPT !.rps.processesTerminated = Tail(@)],
          entity |-> Head(W.rps.processesTerminated)]
    ELSE [world |-> W, entity |-> NilEntity]

OnCpuRemove(W) ==
    IF W.rps.processesOnCpu = <<>> THEN [world |-> W, entity |-> NilEntity]
    ELSE [world |-> [W EXCEPT !.rps.processesOnCpu = Tail(@)],
          entity |-> Head(W.rps.processesOnCpu)]

FillsCpuWheneverWorkWaits(p) == Len(p.processesActive) > 0

\* "Fill the CPU and schedule an interrupt": the condition.
FillsCpu(p) == Len(p.processesOnCpu) = 0 /\ Len(p.processesActive) > 0

InterruptAfterWholeQuantum(re) == 200 * Millisecond

\* The quantum: the CPU time remaining, at most 200ms.
InterruptAfter(re) ==
    IF cpuSecondsRemaining(re) > 200 * Millisecond
    THEN 200 * Millisecond
    ELSE cpuSecondsRemaining(re)

StartNow(W, n, now) == [W EXCEPT !.reqs[n].startTime = <<now>>]

\* The request's startTime is set when it is nil.
StartIfUnset(W, n, now) ==
    IF W.reqs[n].startTime = <<>>
    THEN [W EXCEPT !.reqs[n].startTime = <<now>>]
    ELSE W

\* Add, after the entity was found to be a request.
RpsAdmit(W, entity) ==
    LET now == W.current
        n   == entity.number
        W1  == StartIfUnset(W, n, now)
        \* Enqueue or complete the request.
        W2  == IF cpuSecondsRemaining(W1.reqs[n]) > 0
               THEN [W1 EXCEPT !.rps.processesActive = Append(@, entity)]
               ELSE AddToSchedule(
                        [W1 EXCEPT !.rps.processesTerminated = Append(@, entity)],
                        "complete_request", now + Nanosecond,
                        "RequestsProcessing", "RequestsComplete")
    IN  \* Fill the CPU and schedule an interrupt.
        IF FillsCpu(W2.rps)
        THEN LET req            == Head(W2.rps.processesActive)
                 interruptAfter == InterruptAfter(W2.reqs[req.number])
                 interruptAt    == now + interruptAfter
                 W3 == [W2 EXCEPT
                          !.rps.processesActive = Tail(@),
                          !.reqs[req.number].cpuSecondsConsumed = @ + interruptAfter]
                 W4 == AddToSchedule(W3, "interrupt_process", interruptAt,
                                     "processesOnCpu", "RequestsProcessing")
             IN  [W4 EXCEPT !.cpuUsage = Append(@, <<now, interruptAt>>),
                            !.rps.processesOnCpu = Append(@, entity)]
        ELSE W2

RpsAddCheckingKindLast(W, entity) ==
    IF entity.kind # "Request"
    THEN [W EXCEPT !.runErr = TRUE, !.rps.processesActive = Append(@, entity)]
    ELSE RpsAdmit(W, entity)

\* requestsProcessingStock.Add(entity): only requests are admitted.
RpsAdd(W, entity) ==
    IF entity.kind # "Request" THEN [W EXCEPT !.runErr = TRUE]
    ELSE RpsAdmit(W, entity)

(***************************************************************************)
(* The autoscaler's tick-tock stock.  It always holds the one autoscaler   *)
(* entity; Add is the tick: it asks the policy for the desired number of   *)
(* replicas and schedules one movement per replica of difference.  The     *)
(* Desired stock is taken as a plain stock; no replica is modelled, so     *)
(* calculateCPUUtilization finds no active replica and appends nothing.    *)
(***************************************************************************)
TickTockCount == 1

TickTockEntitiesInStock == <<AutoscalerEntity>>

TickTockRemoveEmptied(W) == [world |-> W, entity |-> NilEntity]

TickTockRemove(W) == [world |-> W, entity |-> AutoscalerEntity]

\* Plugin().Scale(currentTime.UnixNano()): the policy's next result.
Scale(W) == W.plugin[Len(W.scaled) + 1]

RECURSIVE IncreaseDesired(_, _, _)
IncreaseDesired(W, currentTime, delta) ==
    IF delta = 0 THEN W
    ELSE LET W1 == ThroughStockAdd(W, "DesiredSource", DesiredEntity)
         IN  IF W1.runErr THEN W1
             ELSE IncreaseDesired(
                      AddToSchedule(W1, "increase_desired", currentTime + Nanosecond,
                                    "DesiredSource", "Desired"),
                      currentTime, delta - 1)

RECURSIVE ReduceDesired(_, _, _)
ReduceDesired(W, currentTime, delta) ==
    IF delta = 0 THEN W
    ELSE ReduceDesired(
             AddToSchedule(W, "reduce_desired", currentTime + Nanosecond,
                           "Desired", "DesiredSink"),
             currentTime, delta + 1)

\* cluster.RecordToAutoscaler(&currentTime): the cluster's stats are handed
\* to the policy.
RecordToAutoscaler(W, atTime) ==
    [W EXCEPT !.stats = Append(@, [stat |-> "RecordToAutoscaler", at |-> atTime])]

\* calculateCPUUtilization: a sample of the active replicas' average, when
\* there are active replicas.
calculateCPUUtilization(W) ==
    IF Len(W.stocks["ReplicasActive"]) > 0
    THEN [W EXCEPT !.stats = Append(@, [stat |-> "AppendCPUUtilization",
                                        at |-> W.current])]
    ELSE W

\* The tick itself, whatever the entity is.
TickTockTick(W, entity) ==
    LET currentTime == W.current
        W0    == RecordToAutoscaler(W, currentTime)
        r     == Scale(W0)
        count == Len(W0.stocks["Desired"])
        W1    == [W0 EXCEPT !.scaled = Append(@, [at |-> currentTime, count |-> count,
                                                  desired |-> r.desired, err |-> r.err])]
        delta == r.desired - count
    IN  IF r.err THEN [W1 EXCEPT !.pc = "panicked"]
        ELSE LET W2 == IF delta > 0 THEN IncreaseDesired(W1, currentTime, delta)
                       ELSE IF delta < 0 THEN ReduceDesired(W1, currentTime, delta)
                       ELSE W1
             IN  IF W2.runErr THEN W2 ELSE calculateCPUUtilization(W2)

\* The entity is compared after the tick was made.
TickTockAddCheckingEntityLast(W, entity) ==
    LET W1 == TickTockTick(W, entity)
    IN  IF entity # AutoscalerEntity THEN [W1 EXCEPT !.runErr = TRUE] ELSE W1

TickTockAdd(W, entity) ==
    IF entity # AutoscalerEntity THEN [W EXCEPT !.runErr = TRUE]
    ELSE TickTockTick(W, entity)

(***************************************************************************)
(* The replicas' Active stock: a through stock whose Add tells the replica *)
(* that it is active (Activate publishes its endpoint) and whose Remove    *)
(* tells the removed replica that it is terminating (Deactivate withdraws  *)
(* the endpoint).                                                          *)
(***************************************************************************)
NewReplicaFields == [activateCalled |-> 0, deactivateCalled |-> 0, published |-> FALSE]

Activate(W, entity) ==
    [W EXCEPT !.replicas[entity.number].activateCalled = @ + 1,
              !.replicas[entity.number].published = TRUE]

Deactivate(W, entity) ==
    [W EXCEPT !.replicas[entity.number].deactivateCalled = @ + 1,
              !.replicas[entity.number].published = FALSE]

ReplicasActiveAdd(W, entity) ==
    IF entity.kind # "Replica" THEN [W EXCEPT !.runErr = TRUE]
    ELSE ThroughStockAdd(Activate(W, entity), "ReplicasActive", entity)

ReplicasActiveRemoveSilently(W) == ThroughStockRemove(W, "ReplicasActive")

ReplicasActiveRemove(W) ==
    LET rm == ThroughStockRemove(W, "ReplicasActive")
    IN  IF rm.entity = NilEntity THEN rm
        ELSE [world |-> Deactivate(rm.world, rm.entity), entity |-> rm.entity]

(***************************************************************************)
(* The halted-scenario sink: the scenario entity arriving there ends the   *)
(* simulation, so the queue is closed and the driver's next dequeue        *)
(* returns "closed".                                                       *)
(***************************************************************************)
HaltedScenarioAdd(W, entity) ==
    LET W1 == ThroughStockAdd(W, "HaltedScenario", entity)
    IN  IF W1.runErr THEN W1 ELSE [W1 EXCEPT !.mpq.closed = TRUE]

(***************************************************************************)
(* Remove and Add of the stock a movement names.                           *)
(***************************************************************************)
StockRemove(W, name) ==
    CASE name = "RequestsProcessing" -> RpsRemove(W)
      [] name = "processesOnCpu" -> OnCpuRemove(W)
      [] name = "Autoscaler Ticktock" -> TickTockRemove(W)
      [] name = "ReplicasActive" -> ReplicasActiveRemove(W)
      [] OTHER -> ThroughStockRemove(W, name)

StockAdd(W, name, entity) ==
    CASE name = "RequestsProcessing" -> RpsAdd(W, entity)
      [] name = "Autoscaler Ticktock" -> TickTockAdd(W, entity)
      [] name = "HaltedScenario" -> HaltedScenarioAdd(W, entity)
      [] name = "ReplicasActive" -> ReplicasActiveAdd(W, entity)
      [] OTHER -> ThroughStockAdd(W, name, entity)

(***************************************************************************)
(* Run: one turn of the driver loop.                                       *)
(***************************************************************************)
RunTurn(W) ==
    LET d == DequeueMovement(W.mpq)
        m == d.movement
    IN  IF d.closed
        THEN [W EXCEPT !.mpq.closed = TRUE, !.pc = "done"]
        ELSE IF m.occursAt > HaltTime
        THEN [Ignore(W, m, OccursAfterHalt) EXCEPT
                 !.mpq = [d.queue EXCEPT !.closed = TRUE], !.pc = "done"]
        ELSE IF m.occursAt < W.current
        THEN [Ignore(W, m, OccursInPast) EXCEPT !.mpq = d.queue]
        ELSE LET W1 == [W EXCEPT !.mpq = d.queue, !.current = m.occursAt]
                 rm == StockRemove(W1, m.from)
             IN  IF rm.entity = NilEntity
                 THEN Ignore(W1, m, FromStockIsEmpty)
                 ELSE LET W2 == StockAdd(rm.world, m.to, rm.entity)
                      IN  IF W2.pc = "panicked"
                          THEN W2
                          ELSE IF W2.runErr
                          THEN [W2 EXCEPT !.pc = "done"]
                          ELSE [W2 EXCEPT !.completed =
                                   Append(@, [movement |-> m, moved |-> rm.entity])]

(***************************************************************************)
(* The simulation: requests of either CPU demand wait in the routing       *)
(* stock; before Run, movements that send them to the replica, and test    *)
(* movements between two empty test stocks, are offered to the schedule.   *)
(***************************************************************************)
CpuChoices == {100 * Millisecond, 300 * Millisecond}

ArrivalTimes == {startAt + Nanosecond, startAt + 100 * Millisecond,
                 startAt + 900 * Millisecond}

TestTimes == {startAt - Nanosecond, startAt + 100 * Millisecond, HaltTime,
              HaltTime + Nanosecond}

CallsOfKind(kind) == {i \in 1..Len(calls) : calls[i].movement.kind = kind}

\* NewEnvironment: the queue holding the two bookkeeping movements.
NewEnvironmentQueue ==
    LET q1 == EnqueueMovement(NewMovementPriorityQueue,
                  NewMovement(1, "start_to_running", startAt,
                              "BeforeScenario", "RunningScenario")).queue
    IN  EnqueueMovement(q1,
            NewMovement(2, "running_to_halted", HaltTime,
                        "RunningScenario", "HaltedScenario")).queue

\* The stocks before the run: the scenario entity and the requests wait.
NewStocks ==
    [n \in PlainStocks |->
        CASE n = "BeforeScenario" -> <<ScenarioEntity>>
          [] n = "RequestsRouting" ->
                [i \in 1..MaxRequests |-> NewEntity("Request", i)]
          [] OTHER -> <<>>]

\* A new environment and replica, with requests whose CPU demands are drawn
\* from cpuChoices waiting to be routed.
NewSimulation(cpuChoices) ==
    /\ pqOut = [op |-> "none", movement |-> NoMovement, err |-> FALSE,
                before |-> <<>>]
    /\ pqRejected = {}
    /\ mpq = NewEnvironmentQueue
    /\ nextId = 3
    /\ pc = "setup"
    /\ current = startAt
    /\ completed = <<>>
    /\ ignored = <<>>
    /\ runErr = FALSE
    /\ calls = <<>>
    /\ stocks = NewStocks
    /\ rps = NewRequestsProcessingStock
    /\ reqs \in [1..MaxRequests ->
                    {NewRequestEntityFields(c) : c \in cpuChoices}]
    /\ cpuUsage = <<>>
    /\ config = <<>>
    /\ plugin = <<>>
    /\ scaled = <<>>
    /\ reqNumber = MaxRequests
    /\ firstRun = <<>>
    /\ sampled = <<>>
    /\ front = <<>>
    /\ replicas = <<>>
    /\ stats = <<>>
    /\ producer = NoMovement

Init == NewSimulation(CpuChoices)

ScheduleArrival ==
    /\ pc = "setup"
    /\ Cardinality(CallsOfKind("send_to_replica")) < MaxRequests
    /\ CallsOfKind("test movement kind") = {}
    /\ \E t \in ArrivalTimes :
         Install(AddToSchedule(World, "send_to_replica", t,
                               "RequestsRouting", "RequestsProcessing"))
    /\ UNCHANGED <<pqOut, pqRejected>>

ScheduleTestMovement ==
    /\ pc = "setup"
    /\ Cardinality(CallsOfKind("test movement kind")) < MaxTestMovements
    /\ \E t \in TestTimes :
         Install(AddToSchedule(World, "test movement kind", t,
                               "test from stock", "test to stock"))
    /\ UNCHANGED <<pqOut, pqRejected>>

StartRun ==
    /\ pc = "setup"
    /\ pc' = "running"
    /\ UNCHANGED <<mpq, pqOut, pqRejected, nextId, current, completed, ignored,
                   runErr, calls, stocks, rps, reqs, cpuUsage, config, plugin,
                   scaled, reqNumber, firstRun, sampled,
                   front, replicas, stats, producer>>

RunStep ==
    /\ pc = "running"
    /\ ~DequeueBlocks(mpq)
    /\ Install(RunTurn(World))
    /\ UNCHANGED <<pqOut, pqRejected>>

Next == ScheduleArrival \/ ScheduleTestMovement \/ StartRun \/ RunStep

Spec == Init /\ [][Next]_vars

(***************************************************************************)
(* The same simulation with requests that need three quanta of the CPU.    *)
(***************************************************************************)
SlicingCpuChoices == {500 * Millisecond}

InitSlicing == NewSimulation(SlicingCpuChoices)

SpecSlicing == InitSlicing /\ [][Next]_vars

(***************************************************************************)
(* A second run in the same process, with the inputs of the first: a new   *)
(* environment and replica, new requests with the same CPU demands, and    *)
(* the same movements offered to the schedule in the same order.  The      *)
(* request counter is the package's and goes on counting.                  *)
(***************************************************************************)
\* requestEntity.Name() of the request in place i of this run's requests.
RequestName(counter, i) == <<"request-", FormatInt(counter - MaxRequests + i)>>

EntityName(counter, e) ==
    IF e.kind = "Request" THEN RequestName(counter, e.number) ELSE <<e.kind>>

CompletedTrace(counter, trace) ==
    [i \in 1..Len(trace) |->
        [occursAt |-> trace[i].movement.occursAt, kind |-> trace[i].movement.kind,
         from |-> trace[i].movement.from, to |-> trace[i].movement.to,
         moved |-> EntityName(counter, trace[i].moved)]]

IgnoredTrace(trace) ==
    [i \in 1..Len(trace) |->
        [occursAt |-> trace[i].movement.occursAt, kind |-> trace[i].movement.kind,
         from |-> trace[i].movement.from, to |-> trace[i].movement.to,
         reason |-> trace[i].reason]]

IsInput(c) == c.movement.kind \in {"send_to_replica", "test movement kind"}

RECURSIVE Replay(_, _)
Replay(W, inputs) ==
    IF inputs = <<>> THEN W
    ELSE LET m == Head(inputs).movement
         IN  Replay(AddToSchedule(W, m.kind, m.occursAt, m.from, m.to),
                    Tail(inputs))

RunAgain ==
    /\ pc = "done"
    /\ firstRun = <<>>
    /\ LET W == [World EXCEPT
                    !.mpq = NewEnvironmentQueue, !.nextId = 3, !.pc = "running",
                    !.current = startAt, !.completed = <<>>, !.ignored = <<>>,
                    !.runErr = FALSE, !.calls = <<>>, !.stocks = NewStocks,
                    !.rps = NewRequestsProcessingStock,
                    !.reqs = [n \in 1..MaxRequests |->
                                 NewRequestEntityFields(reqs[n].cpuSecondsRequired)],
                    !.cpuUsage = <<>>,
                    !.reqNumber = reqNumber + MaxRequests,
                    !.firstRun = [completed |-> CompletedTrace(reqNumber, completed),
                                  ignored |-> IgnoredTrace(ignored)]]
       IN  Install(Replay(W, SelectSeq(calls, IsInput)))
    /\ UNCHANGED <<pqOut, pqRejected>>

NextRerun == Next \/ RunAgain

SpecRerun == Init /\ [][NextRerun]_vars

(***************************************************************************)
(* cpuUsage on its own, over the length of its window.  Times and          *)
(* durations of this part are in milliseconds, the window of 15 seconds    *)
(* being beyond the nanoseconds an integer of the model holds.  One        *)
(* request occupies the CPU quantum after quantum, as Add schedules it,    *)
(* and usage is evaluated at the current movement time.                    *)
(***************************************************************************)
CpuWindowMillis == 15000

QuantumMillis == 200

CpuDemandsMillis == {500, 15400}

\* cpuUsage.active(from, to)
CpuUsageActive(slices, from, to) == Append(slices, <<from, to>>)

\* The intervals that end before now - window are dropped, none is clamped.
CpuUsageDropOnly(slices, now, window) ==
    SelectSeq(slices, LAMBDA t : ~(t[2] < now - window))

\* cpuUsage.trim(now)
RECURSIVE CpuUsageTrim(_, _, _)
CpuUsageTrim(slices, now, window) ==
    IF slices = <<>> THEN <<>>
    ELSE LET t    == Head(slices)
             rest == CpuUsageTrim(Tail(slices), now, window)
         IN  IF t[2] < now - window THEN rest
             ELSE IF t[1] < now - window THEN <<<<now - window, t[2]>>>> \o rest
             ELSE <<t>> \o rest

RECURSIVE ActiveNanos(_)
ActiveNanos(slices) ==
    IF slices = <<>> THEN 0
    ELSE (Head(slices)[2] - Head(slices)[1]) + ActiveNanos(Tail(slices))

\* cpuUsage.usage(now): the slices after trimming, and the numerator of the
\* ratio returned, whose denominator is the window.
CpuUsageUsage(slices, now, window) ==
    LET trimmed == CpuUsageTrim(slices, now, window)
    IN  [slices |-> trimmed, active |-> ActiveNanos(trimmed)]

InitCpu ==
    /\ mpq = NewMovementPriorityQueue
    /\ pqOut = [op |-> "none", movement |-> NoMovement, err |-> FALSE,
                before |-> <<>>]
    /\ pqRejected = {}
    /\ nextId = 1
    /\ pc = "cpu-idle"
    /\ current = 0
    /\ completed = <<>>
    /\ ignored = <<>>
    /\ runErr = FALSE
    /\ calls = <<>>
    /\ stocks = <<>>
    /\ rps = NewRequestsProcessingStock
    /\ \E d \in CpuDemandsMillis :
         reqs = <<[NewRequestEntityFields(d) EXCEPT !.startTime = <<0>>]>>
    /\ cpuUsage = <<>>
    /\ config = <<>>
    /\ plugin = <<>>
    /\ scaled = <<>>
    /\ reqNumber = 1
    /\ firstRun = <<>>
    /\ sampled = <<>>
    /\ front = <<>>
    /\ replicas = <<>>
    /\ stats = <<>>
    /\ producer = NoMovement

\* Add fills the CPU: the request is charged its next quantum and the
\* interval up to the interrupt is recorded.
CpuFill ==
    /\ pc = "cpu-idle"
    /\ cpuSecondsRemaining(reqs[1]) > 0
    /\ LET interruptAfter == IF cpuSecondsRemaining(reqs[1]) > QuantumMillis
                             THEN QuantumMillis
                             ELSE cpuSecondsRemaining(reqs[1])
           interruptAt    == current + interruptAfter
       IN  /\ reqs' = [reqs EXCEPT ![1].cpuSecondsConsumed = @ + interruptAfter]
           /\ cpuUsage' = CpuUsageActive(cpuUsage, current, interruptAt)
    /\ pc' = "cpu-busy"
    /\ UNCHANGED <<mpq, pqOut, pqRejected, nextId, current, completed, ignored,
                   runErr, calls, stocks, rps, config, plugin, scaled,
                   reqNumber, firstRun, sampled,
                   front, replicas, stats, producer>>

\* The interrupt_process movement: the time moves to the end of the quantum.
CpuInterrupt ==
    /\ pc = "cpu-busy"
    /\ current' = cpuUsage[Len(cpuUsage)][2]
    /\ pc' = "cpu-idle"
    /\ UNCHANGED <<mpq, pqOut, pqRejected, nextId, completed, ignored, runErr,
                   calls, stocks, rps, reqs, cpuUsage, config, plugin, scaled,
                   reqNumber, firstRun, sampled,
                   front, replicas, stats, producer>>

\* usage(now) is evaluated at the current movement time.
CpuSample ==
    /\ pc \in {"cpu-idle", "cpu-busy"}
    /\ LET u == CpuUsageUsage(cpuUsage, current, CpuWindowMillis)
       IN  /\ cpuUsage' = u.slices
           /\ sampled' = [at |-> current, active |-> u.active]
    /\ UNCHANGED <<mpq, pqOut, pqRejected, nextId, pc, current, completed,
                   ignored, runErr, calls, stocks, rps, reqs, config, plugin,
                   scaled, reqNumber, firstRun, front, replicas, stats,
                   producer>>

OtherMovementMillis == 100

\* Another movement of the run is executed while the quantum lasts: the
\* current movement time moves on, short of the interrupt.
CpuOtherMovement ==
    /\ pc = "cpu-busy"
    /\ current + OtherMovementMillis < cpuUsage[Len(cpuUsage)][2]
    /\ current' = current + OtherMovementMillis
    /\ UNCHANGED <<mpq, pqOut, pqRejected, nextId, pc, completed, ignored,
                   runErr, calls, stocks, rps, reqs, cpuUsage, config, plugin,
                   scaled, reqNumber, firstRun, sampled, front, replicas,
                   stats, producer>>

NextCpu == CpuFill \/ CpuInterrupt \/ CpuSample \/ CpuOtherMovement

SpecCpu == InitCpu /\ [][NextCpu]_vars

\* RequestConfig.Timeout of the requests.
RequestTimeout == 250 * Millisecond

(***************************************************************************)
(* The autoscaler.  NewKnativeAutoscaler schedules the ticks between the   *)
(* start and the halt; the policy is given by the result of each of its    *)
(* Scale calls, an error among them.                                       *)
(***************************************************************************)
TickIntervals == {400 * Millisecond, 500 * Millisecond, 1000 * Millisecond}

ScaleResults ==
    {[desired |-> 0, err |-> TRUE], [desired |-> 0, err |-> FALSE],
     [desired |-> 1, err |-> FALSE], [desired |-> 3, err |-> FALSE]}

FirstTickWithoutOffset(interval) == startAt + interval

FirstTick(interval) == startAt + interval + Nanosecond

RECURSIVE ScheduleTicks(_, _, _)
ScheduleTicks(W, theTime, interval) ==
    IF theTime < HaltTime
    THEN ScheduleTicks(
             AddToSchedule(W, "autoscaler_tick", theTime,
                           "Autoscaler Ticktock", "Autoscaler Ticktock"),
             theTime + interval, interval)
    ELSE W

NewKnativeAutoscaler(W, interval) ==
    ScheduleTicks([W EXCEPT !.config = [TickInterval |-> interval]],
                  FirstTick(interval), interval)

ConstructAutoscaler ==
    /\ pc = "setup"
    /\ calls = <<>>
    /\ config = <<>>
    /\ \E interval \in TickIntervals :
         LET W == NewKnativeAutoscaler(World, interval)
         IN  \E p \in [1..Len(W.calls) -> ScaleResults] :
                 Install([W EXCEPT !.plugin = p])
    /\ UNCHANGED <<pqOut, pqRejected>>

NextAutoscaler ==
    ConstructAutoscaler \/ ScheduleTestMovement \/ StartRun \/ RunStep

SpecAutoscaler == Init /\ [][NextAutoscaler]_vars

(***************************************************************************)
(* The autoscaler and the replica in one simulation.                       *)
(***************************************************************************)
NextCluster == ConstructAutoscaler \/ ScheduleArrival \/ StartRun \/ RunStep

SpecCluster == Init /\ [][NextCluster]_vars

(***************************************************************************)
(* The replica under movements it does not schedule itself: a              *)
(* complete_request that asks the processing stock for an entity before    *)
(* any request has terminated, and a movement that carries the scenario    *)
(* entity, which is not a request, to the processing stock.                *)
(***************************************************************************)
DrainTimes == {startAt + 50 * Millisecond, startAt + 250 * Millisecond}

MisroutedTimes == {startAt + 150 * Millisecond}

ScheduleDrain ==
    /\ pc = "setup"
    /\ \A k \in 1..Len(calls) : calls[k].movement.kind = "autoscaler_tick"
    /\ \E t \in DrainTimes :
         Install(AddToSchedule(World, "complete_request", t,
                               "RequestsProcessing", "RequestsComplete"))
    /\ UNCHANGED <<pqOut, pqRejected>>

ScheduleMisrouted ==
    /\ pc = "setup"
    /\ CallsOfKind("misrouted_entity") = {}
    /\ CallsOfKind("send_to_replica") = {}
    /\ \E t \in MisroutedTimes :
         Install(AddToSchedule(World, "misrouted_entity", t,
                               "RunningScenario", "RequestsProcessing"))
    /\ UNCHANGED <<pqOut, pqRejected>>

NextReplica ==
    ScheduleDrain \/ ScheduleMisrouted \/ ScheduleArrival \/ StartRun \/ RunStep

SpecReplica == Init /\ [][NextReplica]_vars

(***************************************************************************)
(* The HTTP service: RunHandler decodes the body of a POST /run request,   *)
(* builds the environment and the traffic pattern the request names, lets  *)
(* the pattern generate its arrivals, runs the simulation and encodes the  *)
(* response.  A panic leaves the handler without a status written: the     *)
(* server closes the connection (status 0 here).                           *)
(***************************************************************************)
TrafficPatternNames == {"golang_rand_uniform", "step", "ramp", "sinusoidal"}

\* The names requests carry; the last is the name the handler's test sends.
OfferedPatternNames == TrafficPatternNames \cup {"goland_rand_uniform"}

NoResponse == 0

StatusOK == 200

StatusInternalServerError == 500

\* The handler up to traffic.Generate(): a body that does not decode
\* panics, and a name outside the switch leaves traffic nil, so that
\* calling Generate on it panics.
ServeReceive ==
    /\ pc = "setup"
    /\ front = <<>>
    /\ calls = <<>>
    /\ \E decodes \in BOOLEAN, pattern \in OfferedPatternNames :
         front' = [kind |-> "http", decodes |-> decodes, pattern |-> pattern,
                   stage |-> IF decodes /\ pattern \in TrafficPatternNames
                             THEN "generating" ELSE "panicked",
                   status |-> NoResponse]
    /\ UNCHANGED <<mpq, pqOut, pqRejected, nextId, pc, current, completed, ignored,
                   runErr, calls, stocks, rps, reqs, cpuUsage, config, plugin,
                   scaled, reqNumber, firstRun, sampled, replicas, stats,
                   producer>>

\* traffic.Generate(): the pattern offers its arrivals to the schedule.
ServeGenerate ==
    /\ front # <<>>
    /\ front.stage = "generating"
    /\ ScheduleArrival

\* env.Run().
ServeRun ==
    /\ front # <<>>
    /\ front.stage = "generating"
    /\ StartRun

\* After Run: an error panics; otherwise the response is encoded, and a
\* failure to encode it is answered with status 500.
ServeRespond ==
    /\ pc = "done"
    /\ front # <<>>
    /\ front.stage = "generating"
    /\ \E encodes \in BOOLEAN :
         front' = IF runErr
                  THEN [front EXCEPT !.stage = "panicked"]
                  ELSE [front EXCEPT !.stage = "responded",
                                     !.status = IF encodes THEN StatusOK
                                                ELSE StatusInternalServerError]
    /\ UNCHANGED <<mpq, pqOut, pqRejected, nextId, pc, current, completed, ignored,
                   runErr, calls, stocks, rps, reqs, cpuUsage, config, plugin,
                   scaled, reqNumber, firstRun, sampled, replicas, stats,
                   producer>>

NextServe == ServeReceive \/ ServeGenerate \/ ServeRun \/ RunStep \/ ServeRespond

SpecServe == Init /\ [][NextServe]_vars

(***************************************************************************)
(* The command line program: main builds the runner, the cluster and the   *)
(* autoscaler, and calls RunAndReport, which returns Run's error; main     *)
(* prints the error and returns.  A process whose main returns exits with  *)
(* status 0, one that panics with status 2.                                *)
(***************************************************************************)
ExitSuccess == 0

ExitPanic == 2

\* RunAndReport's call of env.Run().
CliRun ==
    /\ config # <<>>
    /\ StartRun

\* The end of main.
CliExit ==
    /\ pc \in {"done", "panicked"}
    /\ front = <<>>
    /\ front' = [kind |-> "cli", err |-> pc = "done" /\ runErr,
                 exit |-> IF pc = "panicked" THEN ExitPanic ELSE ExitSuccess]
    /\ UNCHANGED <<mpq, pqOut, pqRejected, nextId, pc, current, completed, ignored,
                   runErr, calls, stocks, rps, reqs, cpuUsage, config, plugin,
                   scaled, reqNumber, firstRun, sampled, replicas, stats,
                   producer>>

NextCli ==
    ConstructAutoscaler \/ ScheduleMisrouted \/ ScheduleArrival \/ CliRun
        \/ RunStep \/ CliExit

SpecCli == Init /\ [][NextCli]_vars

(***************************************************************************)
(* The cluster's replicas: they wait in Launching; before Run, movements   *)
(* that make a replica active and movements that take one out of Active    *)
(* are offered to the schedule.                                            *)
(***************************************************************************)
ActivationTimes == {startAt + 100 * Millisecond, startAt + 300 * Millisecond,
                    startAt + 500 * Millisecond}

TerminationTimes == {startAt + 50 * Millisecond, startAt + 200 * Millisecond,
                     startAt + 400 * Millisecond, startAt + 600 * Millisecond}

LaunchReplicas ==
    /\ pc = "setup"
    /\ replicas = <<>>
    /\ calls = <<>>
    /\ replicas' = [r \in 1..MaxReplicas |-> NewReplicaFields]
    /\ stocks' = [stocks EXCEPT !["ReplicasLaunching"] =
                      [r \in 1..MaxReplicas |-> NewEntity("Replica", r)]]
    /\ UNCHANGED <<mpq, pqOut, pqRejected, nextId, pc, current, completed, ignored,
                   runErr, calls, rps, reqs, cpuUsage, config, plugin,
                   scaled, reqNumber, firstRun, sampled, front, stats,
                   producer>>

ScheduleActivation ==
    /\ pc = "setup"
    /\ replicas # <<>>
    /\ CallsOfKind("terminate_active") = {}
    /\ Cardinality(CallsOfKind("finish_launching")) < MaxReplicas
    /\ \E t \in ActivationTimes :
         Install(AddToSchedule(World, "finish_launching", t,
                               "ReplicasLaunching", "ReplicasActive"))
    /\ UNCHANGED <<pqOut, pqRejected>>

ScheduleTermination ==
    /\ pc = "setup"
    /\ replicas # <<>>
    /\ Cardinality(CallsOfKind("terminate_active")) < MaxReplicas
    /\ \E t \in TerminationTimes :
         Install(AddToSchedule(World, "terminate_active", t,
                               "ReplicasActive", "ReplicasTerminating"))
    /\ UNCHANGED <<pqOut, pqRejected>>

RunCluster ==
    /\ replicas # <<>>
    /\ StartRun

NextActive ==
    LaunchReplicas \/ ScheduleActivation \/ ScheduleTermination \/ RunCluster
        \/ RunStep

InitActive == NewSimulation({100 * Millisecond})

SpecActive == InitActive /\ [][NextActive]_vars

(***************************************************************************)
(* The autoscaler beside active replicas, with a movement that carries a   *)
(* request from the routing stock into the autoscaler's ticktock stock.    *)
(***************************************************************************)
ForeignTimes == {startAt + 200 * Millisecond, startAt + 700 * Millisecond}

ScheduleForeign ==
    /\ pc = "setup"
    /\ config # <<>>
    /\ CallsOfKind("foreign_entity") = {}
    /\ \E t \in ForeignTimes :
         Install(AddToSchedule(World, "foreign_entity", t,
                               "RequestsRouting", "Autoscaler Ticktock"))
    /\ UNCHANGED <<pqOut, pqRejected>>

NextTickTock ==
    LaunchReplicas \/ ConstructAutoscaler \/ ScheduleActivation
        \/ ScheduleForeign \/ StartRun \/ RunStep

SpecTickTock == InitActive /\ [][NextTickTock]_vars


(***************************************************************************)
(* C2.  After any sequence of EnqueueMovement and DequeueMovement calls,   *)
(* no two movements pending in the queue have the same OccursAt            *)
(* nanosecond.                                                             *)
(***************************************************************************)
C2_UniquePendingTimestamps ==
    \A i, j \in 1..Len(mpq.heap) :
        i # j => mpq.heap[i].occursAt # mpq.heap[j].occursAt

\* A second movement was offered for a pending nanosecond, with another
\* movement pending beside it.
C2_Witness ==
    /\ pqOut.op = "enqueue"
    /\ pqOut.movement.occursAt \in TimesOf(pqOut.before)
    /\ Len(mpq.heap) >= 2

C4_DequeueEarliest ==
    pqOut.op = "dequeue" =>
        /\ ~pqOut.err
        /\ pqOut.movement \in Elems(pqOut.before)
        /\ \A x \in Elems(pqOut.before) : pqOut.movement.occursAt <= x.occursAt
        /\ Len(mpq.heap) = Len(pqOut.before) - 1
        /\ Elems(mpq.heap) = Elems(pqOut.before) \ {pqOut.movement}

\* The earliest of three or more pending movements was enqueued after a
\* later one.
C4_Witness ==
    /\ pqOut.op = "dequeue"
    /\ Len(pqOut.before) >= 3
    /\ \E x \in Elems(pqOut.before) : x.id < pqOut.movement.id

(***************************************************************************)
(* C1.  In every run, the completed trace is in strictly increasing time   *)
(* order: consecutive completed movements m_i, m_{i+1} have                *)
(* m_i.OccursAt < m_{i+1}.OccursAt, whatever movements the stocks enqueue  *)
(* while the run is in progress.                                           *)
(***************************************************************************)
C1_CompletedStrictlyIncreasing ==
    \A i \in 1..(Len(completed) - 1) :
        completed[i].movement.occursAt < completed[i + 1].movement.occursAt

(***************************************************************************)
(* C5.  AddToSchedule(m) returns false, does not enqueue m and appends     *)
(* exactly one ignored entry for m when m.OccursAt is before the current   *)
(* movement time (OccursInPast), equals the time of an enqueued movement   *)
(* (OccursSimultaneouslyWithAnotherMovement) or is after HaltTime          *)
(* (OccursAfterHalt); in every other case it returns true, enqueues m and  *)
(* records no ignored entry.                                               *)
(***************************************************************************)
IgnoredEntriesOf(m) == {i \in 1..Len(ignored) : ignored[i].movement = m}

CompletedEntriesOf(m) == {i \in 1..Len(completed) : completed[i].movement = m}

CallInPast(c) == c.movement.occursAt < c.current

CallSimultaneous(c) == c.movement.occursAt \in c.pending

CallAfterHalt(c) == c.movement.occursAt > HaltTime

C5_AddToScheduleContract ==
    \A k \in 1..Len(calls) :
        LET c == calls[k]
            m == c.movement
        IN  IF CallInPast(c) \/ CallSimultaneous(c) \/ CallAfterHalt(c)
            THEN /\ ~c.added
                 /\ m \notin Elems(mpq.heap)
                 /\ CompletedEntriesOf(m) = {}
                 /\ Cardinality(IgnoredEntriesOf(m)) = 1
                 /\ \A i \in IgnoredEntriesOf(m) :
                      /\ CallInPast(c) => ignored[i].reason = OccursInPast
                      /\ CallSimultaneous(c) =>
                           ignored[i].reason = OccursSimultaneouslyWithAnotherMovement
                      /\ CallAfterHalt(c) => ignored[i].reason = OccursAfterHalt
            ELSE /\ c.added
                 \* enqueued with no ignored entry, until the driver takes it
                 /\ \/ m \in Elems(mpq.heap) /\ IgnoredEntriesOf(m) = {}
                    \/ /\ m \notin Elems(mpq.heap)
                       /\ Cardinality(CompletedEntriesOf(m))
                            + Cardinality(IgnoredEntriesOf(m)) = 1
                       /\ \A i \in IgnoredEntriesOf(m) :
                            ignored[i].reason = FromStockIsEmpty

\* One run in which a movement was refused for each of the three reasons
\* and another was accepted.
C5_Witness ==
    /\ \E k \in 1..Len(calls) : CallInPast(calls[k])
    /\ \E k \in 1..Len(calls) : CallSimultaneous(calls[k])
    /\ \E k \in 1..Len(calls) : CallAfterHalt(calls[k])
    /\ \E k \in 1..Len(calls) : calls[k].added

(***************************************************************************)
(* C6.  Halt bound: every completed movement has OccursAt <= HaltTime, and *)
(* every movement offered with OccursAt > HaltTime is in the ignored trace *)
(* exactly once, with the after-halt reason, and never in the completed    *)
(* trace.                                                                  *)
(***************************************************************************)
C6_HaltBound ==
    /\ \A i \in 1..Len(completed) : completed[i].movement.occursAt <= HaltTime
    /\ \A k \in 1..Len(calls) :
         CallAfterHalt(calls[k]) =>
            /\ Cardinality(IgnoredEntriesOf(calls[k].movement)) = 1
            /\ \A i \in IgnoredEntriesOf(calls[k].movement) :
                 ignored[i].reason = OccursAfterHalt
            /\ CompletedEntriesOf(calls[k].movement) = {}

\* A finished run in which both a test movement and the processing stock's
\* interrupt were offered for a time after the halt.
C6_Witness ==
    /\ pc = "done"
    /\ \E k \in 1..Len(calls) :
         CallAfterHalt(calls[k]) /\ calls[k].movement.kind = "test movement kind"
    /\ \E k \in 1..Len(calls) :
         CallAfterHalt(calls[k]) /\ calls[k].movement.kind = "interrupt_process"
    /\ \E i \in 1..Len(completed) : completed[i].movement.occursAt = HaltTime

(***************************************************************************)
(* C7.  With no movements but the kernel's own bookkeeping, Run completes  *)
(* exactly two movements of the Scenario entity, start_to_running at       *)
(* startAt (BeforeScenario to RunningScenario) first and running_to_halted *)
(* at HaltTime (RunningScenario to HaltedScenario) last, and the ignored   *)
(* trace is empty; in any run that returns without error these two are the *)
(* first and the last completed movement.  Neither of the two is ever      *)
(* ignored, during the run or after it.                                    *)
(***************************************************************************)
IsStartToRunning(c) ==
    /\ c.movement.kind = "start_to_running"
    /\ c.movement.occursAt = startAt
    /\ c.movement.from = "BeforeScenario"
    /\ c.movement.to = "RunningScenario"
    /\ c.moved = ScenarioEntity

IsRunningToHalted(c) ==
    /\ c.movement.kind = "running_to_halted"
    /\ c.movement.occursAt = HaltTime
    /\ c.movement.from = "RunningScenario"
    /\ c.movement.to = "HaltedScenario"
    /\ c.moved = ScenarioEntity

C7_BookkeepingMovements ==
    /\ \A i \in 1..Len(ignored) :
          ignored[i].movement.kind \notin {"start_to_running", "running_to_halted"}
    /\ (pc = "done" /\ ~runErr) =>
          /\ Len(completed) >= 2
          /\ IsStartToRunning(completed[1])
          /\ IsRunningToHalted(completed[Len(completed)])
          /\ calls = <<>> => (Len(completed) = 2 /\ ignored = <<>>)

\* The empty scenario has run.
C7_Witness == pc = "done" /\ ~runErr /\ calls = <<>> /\ Len(completed) = 2

(***************************************************************************)
(* C8.  Within one replica's processing stock, after any sequence of       *)
(* admissions, interrupt_process and complete_request movements, each      *)
(* request entity is held by at most one of the stocks active, onCpu and   *)
(* terminated, and no admitted request is absent from all three before it  *)
(* has been moved to the completion sink.                                  *)
(***************************************************************************)
TimesHeld(s, e) == Cardinality({i \in 1..Len(s) : s[i] = e})

HeldByProcessing(e) ==
    TimesHeld(rps.processesActive, e) + TimesHeld(rps.processesOnCpu, e)
        + TimesHeld(rps.processesTerminated, e)

C8_EachRequestInOneStock ==
    \A n \in 1..MaxRequests :
        LET e == NewEntity("Request", n)
        IN  /\ HeldByProcessing(e) <= 1
            /\ (reqs[n].startTime # <<>> /\ e \notin Elems(stocks["RequestsComplete"]))
                  => HeldByProcessing(e) = 1

(***************************************************************************)
(* C9.  CPU singleton: in every reachable state of a replica's processing  *)
(* stock the onCpu stock holds at most one entity, for any interleaving of *)
(* admissions, interrupts and completions.                                 *)
(***************************************************************************)
C9_CpuSingleton == Len(rps.processesOnCpu) <= 1

\* A request is on the CPU while another waits, after an interrupt.
C9_Witness ==
    /\ Len(rps.processesOnCpu) = 1
    /\ Len(rps.processesActive) >= 1
    /\ \E i \in 1..Len(completed) : completed[i].movement.kind = "interrupt_process"

(***************************************************************************)
(* C10.  CPU budget: for every request in every reachable state,           *)
(* 0 <= cpuSecondsConsumed <= cpuSecondsRequired, and cpuSecondsConsumed   *)
(* never decreases from one state to the next.                             *)
(***************************************************************************)
CpuBudget ==
    \A n \in 1..MaxRequests :
        /\ 0 <= reqs[n].cpuSecondsConsumed
        /\ reqs[n].cpuSecondsConsumed <= reqs[n].cpuSecondsRequired

C10_CpuBudget ==
    /\ []CpuBudget
    /\ [][\A n \in 1..MaxRequests :
            reqs'[n].cpuSecondsConsumed >= reqs[n].cpuSecondsConsumed]_vars

\* A request needing more than one quantum has consumed all it required while
\* another has consumed only a part.
C10_Witness ==
    /\ \E n \in 1..MaxRequests :
         /\ reqs[n].cpuSecondsRequired > 200 * Millisecond
         /\ reqs[n].cpuSecondsConsumed = reqs[n].cpuSecondsRequired
    /\ \E n \in 1..MaxRequests :
         /\ 0 < reqs[n].cpuSecondsConsumed
         /\ reqs[n].cpuSecondsConsumed < reqs[n].cpuSecondsRequired

(***************************************************************************)
(* C11.  Remove() on the processing stock returns an entity only from the  *)
(* terminated stock: it never removes from active or onCpu, it returns nil *)
(* (the movement is ignored, its from stock being empty) when terminated   *)
(* is empty even if active or onCpu are not, and every request that has    *)
(* reached the completion sink has cpuSecondsRemaining = 0.                *)
(***************************************************************************)
\* The driver's next turn executes the movement at the head of the queue.
TurnExecutes(m) ==
    /\ pc = "running"
    /\ mpq.heap # <<>>
    /\ m = mpq.heap[1]
    /\ m.occursAt >= current
    /\ m.occursAt <= HaltTime

CompletedRequestsAreSpent ==
    \A i \in 1..Len(stocks["RequestsComplete"]) :
        cpuSecondsRemaining(reqs[stocks["RequestsComplete"][i].number]) = 0

RemoveDrainsTerminatedOnly ==
    \A m \in Elems(mpq.heap) :
        (TurnExecutes(m) /\ m.from = "RequestsProcessing") =>
            /\ rps'.processesActive = rps.processesActive
            /\ rps'.processesOnCpu = rps.processesOnCpu
            /\ IF rps.processesTerminated = <<>>
               THEN /\ rps' = rps
                    /\ completed' = completed
                    /\ ignored' = Append(ignored, [movement |-> m,
                                                   reason |-> FromStockIsEmpty])
               ELSE /\ rps'.processesTerminated = Tail(rps.processesTerminated)
                    /\ ignored' = ignored
                    /\ completed' =
                         Append(completed,
                                [movement |-> m,
                                 moved |-> Head(rps.processesTerminated)])

C11_RemoveFromTerminatedOnly ==
    /\ []CompletedRequestsAreSpent
    /\ [][RemoveDrainsTerminatedOnly]_vars

\* A complete_request has just found terminated empty while a request was on
\* the CPU, after another request had reached the completion sink.
C11_Witness ==
    /\ ignored # <<>>
    /\ ignored[Len(ignored)].movement.from = "RequestsProcessing"
    /\ ignored[Len(ignored)].reason = FromStockIsEmpty
    /\ ignored[Len(ignored)].movement.occursAt = current
    /\ rps.processesOnCpu # <<>>
    /\ stocks["RequestsComplete"] # <<>>

(***************************************************************************)
(* C12.  CPU slicing: a single request with cpuSecondsRequired = 500ms     *)
(* admitted to an idle replica at time a has interrupt_process movements   *)
(* complete at exactly a + 200ms, a + 400ms and a + 500ms, with            *)
(* cpuSecondsConsumed 200ms, 400ms, 500ms charged when each quantum is     *)
(* scheduled, and one complete_request movement complete at                *)
(* a + 500ms + 1ns, after which active, onCpu and terminated are empty.    *)
(***************************************************************************)
IsInterruptProcess(c) == c.movement.kind = "interrupt_process"

IsCompleteRequest(c) == c.movement.kind = "complete_request"

SingleAdmission ==
    /\ pc \in {"running", "done"}
    /\ Cardinality(CallsOfKind("send_to_replica")) = 1
    /\ \A k \in CallsOfKind("send_to_replica") : calls[k].added

AdmissionTime ==
    LET k == CHOOSE k \in CallsOfKind("send_to_replica") : TRUE
    IN  calls[k].movement.occursAt

C12_CpuSlicing ==
    SingleAdmission =>
        LET a        == AdmissionTime
            r        == NewEntity("Request", 1)
            ints     == SelectSeq(completed, IsInterruptProcess)
            comps    == SelectSeq(completed, IsCompleteRequest)
            k        == Len(ints)
            expected == <<a + 200 * Millisecond, a + 400 * Millisecond,
                          a + 500 * Millisecond>>
        IN  /\ k <= 3
            /\ \A i \in 1..k :
                 ints[i].movement.occursAt = expected[i] /\ ints[i].moved = r
            /\ Len(comps) <= 1
            /\ \A i \in 1..Len(comps) :
                 /\ comps[i].movement.occursAt = a + 500 * Millisecond + Nanosecond
                 /\ comps[i].moved = r
                 /\ k = 3
            /\ reqs[1].startTime # <<>> =>
                 /\ reqs[1].startTime = <<a>>
                 /\ reqs[1].cpuSecondsConsumed =
                      CASE k = 0 -> 200 * Millisecond
                        [] k = 1 -> 400 * Millisecond
                        [] OTHER -> 500 * Millisecond
            /\ (pc = "done" /\ a + 500 * Millisecond + Nanosecond <= HaltTime) =>
                 /\ ~runErr
                 /\ k = 3
                 /\ Len(comps) = 1
                 /\ rps = NewRequestsProcessingStock
                 /\ stocks["RequestsComplete"] = <<r>>

\* The single request has gone through its three quanta and has been
\* completed.
C12_Witness ==
    /\ SingleAdmission
    /\ pc = "done"
    /\ Len(SelectSeq(completed, IsInterruptProcess)) = 3
    /\ Len(SelectSeq(completed, IsCompleteRequest)) = 1
    /\ rps = NewRequestsProcessingStock

(***************************************************************************)
(* C13.  Constructing the autoscaler schedules, for each k >= 1 such that  *)
(* startAt + k*TickInterval + 1ns is earlier than HaltTime, exactly one    *)
(* autoscaler_tick movement from the tick-tock stock to itself at that     *)
(* time, and no autoscaler_tick at any other time.                         *)
(***************************************************************************)
TickTimesExpected ==
    {t \in {startAt + k * config.TickInterval + Nanosecond :
                k \in 1..(RunFor \div config.TickInterval + 1)} : t < HaltTime}

C13_TicksScheduled ==
    config # <<>> =>
        /\ \A t \in TickTimesExpected :
             Cardinality({k \in CallsOfKind("autoscaler_tick") :
                             calls[k].movement.occursAt = t}) = 1
        /\ \A k \in CallsOfKind("autoscaler_tick") :
             /\ calls[k].movement.occursAt \in TickTimesExpected
             /\ calls[k].added
             /\ calls[k].movement.from = "Autoscaler Ticktock"
             /\ calls[k].movement.to = "Autoscaler Ticktock"

\* An autoscaler whose interval fits twice before the halt has been
\* constructed.
C13_Witness ==
    /\ config # <<>>
    /\ Cardinality(TickTimesExpected) = 2
    /\ Cardinality(CallsOfKind("autoscaler_tick")) = 2

(***************************************************************************)
(* C14.  A tick at time now with policy result desired and                 *)
(* delta = desired - Desired.Count() results in exactly |delta| movements  *)
(* accepted into the schedule at now + 1ns (increase_desired into Desired  *)
(* when delta > 0, reduce_desired out of Desired when delta < 0, none when *)
(* delta = 0), and each of them changes Desired.Count() by one when it     *)
(* executes: with Desired.Count() = 0 and Scale = 3, three                 *)
(* increase_desired movements each add one entity to Desired.              *)
(***************************************************************************)
AcceptedAt(kind, t) ==
    {k \in CallsOfKind(kind) : calls[k].movement.occursAt = t /\ calls[k].added}

CompletedAt(kind, t) ==
    {i \in 1..Len(completed) :
        completed[i].movement.kind = kind /\ completed[i].movement.occursAt = t}

C14_TickSchedulesDelta ==
    \A i \in 1..Len(scaled) :
        ~scaled[i].err =>
            LET t     == scaled[i].at + Nanosecond
                delta == scaled[i].desired - scaled[i].count
                up    == IF delta > 0 THEN delta ELSE 0
                down  == IF delta < 0 THEN 0 - delta ELSE 0
            IN  /\ Cardinality(AcceptedAt("increase_desired", t)) = up
                /\ Cardinality(AcceptedAt("reduce_desired", t)) = down
                /\ (pc = "done" /\ ~runErr) =>
                     /\ Cardinality(CompletedAt("increase_desired", t)) = up
                     /\ Cardinality(CompletedAt("reduce_desired", t)) = down

(***************************************************************************)
(* C15.  When the policy's Scale call returns an error during a tick, the  *)
(* failure is surfaced as the err result of Run, which returns with the    *)
(* traces recorded so far; it does not leave the driver as a panic.        *)
(***************************************************************************)
C15_ScaleErrorSurfaced ==
    (\E i \in 1..Len(scaled) : scaled[i].err) => (pc = "done" /\ runErr)

(***************************************************************************)
(* C16.  Add on the processing stock with an entity that is not a request  *)
(* returns an error, which ends the run, and leaves active, onCpu,         *)
(* terminated, the schedule and every request's fields unchanged.          *)
(***************************************************************************)
CarriesNonRequest(m) ==
    /\ m.to = "RequestsProcessing"
    /\ m.from \in PlainStocks
    /\ stocks[m.from] # <<>>
    /\ Head(stocks[m.from]).kind # "Request"

C16_NonRequestRejected ==
    [][\A m \in Elems(mpq.heap) :
          (TurnExecutes(m) /\ CarriesNonRequest(m)) =>
              /\ runErr'
              /\ pc' = "done"
              /\ rps' = rps
              /\ reqs' = reqs
              /\ cpuUsage' = cpuUsage
              /\ calls' = calls
              /\ Elems(mpq'.heap) = Elems(mpq.heap) \ {m}
              /\ completed' = completed]_vars

\* The run has ended with an error at the misrouted movement, with a request
\* on the CPU and its interrupt still scheduled.
C16_Witness ==
    /\ pc = "done"
    /\ runErr
    /\ \E k \in CallsOfKind("misrouted_entity") :
         calls[k].added /\ calls[k].movement.occursAt = current
    /\ rps.processesOnCpu # <<>>
    /\ \E m \in Elems(mpq.heap) : m.kind = "interrupt_process"

(***************************************************************************)
(* C17.  On every re-admission of a request to the processing stock (each  *)
(* Add after an interrupt), if now - startTime exceeds the request's       *)
(* timeout the request is diverted to the failure sink and never reaches   *)
(* the completion sink.                                                    *)
(***************************************************************************)
ReadmittedAfterTimeout(e) ==
    \E i \in 1..Len(completed) :
        /\ completed[i].movement.kind = "interrupt_process"
        /\ completed[i].moved = e
        /\ reqs[e.number].startTime # <<>>
        /\ completed[i].movement.occursAt - reqs[e.number].startTime[1]
              > RequestTimeout

C17_TimedOutNeverCompletes ==
    \A n \in 1..MaxRequests :
        ReadmittedAfterTimeout(NewEntity("Request", n)) =>
            NewEntity("Request", n) \notin Elems(stocks["RequestsComplete"])

(***************************************************************************)
(* C18.  Utilization bound: whenever cpuUsage.usage(now) is evaluated, the *)
(* sum of the recorded interval lengths after trimming is between 0 and    *)
(* the window length (15s), that is 0 <= usage(now) <= 1, also when now    *)
(* falls inside a quantum whose interval was recorded when it was          *)
(* scheduled.                                                              *)
(***************************************************************************)
C18_UtilizationBound ==
    sampled # <<>> => (0 <= sampled.active /\ sampled.active <= CpuWindowMillis)

(***************************************************************************)
(* C19.  Determinism: running the simulator twice with identical inputs    *)
(* yields identical completed and ignored traces (same order, times,       *)
(* kinds, stock names and moved entity names), also when the two runs      *)
(* happen one after the other in the same process.                         *)
(***************************************************************************)
C19_Deterministic ==
    (firstRun # <<>> /\ pc = "done") =>
        /\ CompletedTrace(reqNumber, completed) = firstRun.completed
        /\ IgnoredTrace(ignored) = firstRun.ignored

(***************************************************************************)
(* C20.  Run terminates: for any movements scheduled before Run and any    *)
(* behaviour of the replica and autoscaler stocks, the driver loop stops   *)
(* and returns; it is never blocked in DequeueMovement on an empty,        *)
(* unclosed queue.  Stated as: a run that has not returned can take        *)
(* another turn, and every turn either returns or adds an entry to one of  *)
(* the two traces, of which a run has finitely many.                       *)
(***************************************************************************)
RunCanGoOn ==
    \/ pc = "setup"
    \/ pc = "done"
    \/ pc = "running" /\ ~DequeueBlocks(mpq)

TurnReturnsOrRecords ==
    pc = "running" =>
        \/ pc' = "done"
        \/ Len(completed') + Len(ignored') > Len(completed) + Len(ignored)

C20_RunTerminates == []RunCanGoOn /\ [][TurnReturnsOrRecords]_vars

(***************************************************************************)
(* C21.  Queue shutdown: after Close(), IsClosed() is true and stays true, *)
(* DequeueMovement on an empty queue returns (nil, nil, closed = true)     *)
(* instead of a movement or an error, and calling Close() a second time    *)
(* changes nothing.                                                        *)
(***************************************************************************)
ClosedAfterClose == pqOut.op = "close" => IsClosed(mpq)

EmptyDequeueReportsClosed ==
    (pqOut.op = "dequeue" /\ pqOut.before = <<>>) =>
        /\ pqOut.movement = NoMovement
        /\ ~pqOut.err
        /\ pqOut.closed
        /\ IsClosed(mpq)

StaysClosed == IsClosed(mpq) => IsClosed(mpq')

SecondCloseChangesNothing ==
    (pqOut'.op = "close" /\ pqOut'.wasClosed) => mpq' = mpq

C21_QueueShutdown ==
    /\ [](ClosedAfterClose /\ EmptyDequeueReportsClosed)
    /\ [][StaysClosed /\ SecondCloseChangesNothing]_vars

\* A closed, empty queue asked for a movement, after an enqueue was refused.
C21_Witness ==
    /\ pqOut.op = "dequeue"
    /\ pqOut.before = <<>>
    /\ pqOut.closed
    /\ pqRejected # {}

(***************************************************************************)
(* C22.  A POST /run request with invalid configuration (a body that does  *)
(* not decode as JSON, or a traffic_pattern name outside                   *)
(* golang_rand_uniform, step, ramp, sinusoidal) produces a 4xx error       *)
(* response and the kernel's Run is never invoked for it.                  *)
(***************************************************************************)
InvalidConfiguration(request) ==
    ~request.decodes \/ request.pattern \notin TrafficPatternNames

RunNotInvoked == pc = "setup"

C22_InvalidConfigurationRejected ==
    (front # <<>> /\ InvalidConfiguration(front)) =>
        /\ front.status \in 400..499
        /\ RunNotInvoked

(***************************************************************************)
(* C23.  The CLI process exits with status 0 when the simulation succeeds  *)
(* and with a non-zero status whenever Run returns a fatal error.          *)
(***************************************************************************)
C23_ExitStatus ==
    (front # <<>> /\ front.kind = "cli") =>
        IF front.err THEN front.exit # 0 ELSE (pc = "done" => front.exit = 0)

(***************************************************************************)
(* C24.  Every Add of a replica to the Active stock calls Activate on that *)
(* replica exactly once and every Remove from the Active stock calls       *)
(* Deactivate on the removed replica exactly once, so a replica's endpoint *)
(* is published exactly while it is held by Active.                        *)
(***************************************************************************)
MovesInto(name, e) ==
    Cardinality({i \in 1..Len(completed) :
                    completed[i].movement.to = name /\ completed[i].moved = e})

MovesOutOf(name, e) ==
    Cardinality({i \in 1..Len(completed) :
                    completed[i].movement.from = name /\ completed[i].moved = e})

C24_ActiveStockLifecycle ==
    \A r \in 1..Len(replicas) :
        LET e == NewEntity("Replica", r)
        IN  /\ replicas[r].activateCalled = MovesInto("ReplicasActive", e)
            /\ replicas[r].deactivateCalled = MovesOutOf("ReplicasActive", e)
            /\ replicas[r].published <=> e \in Elems(stocks["ReplicasActive"])

\* One replica was made active and taken out again while the other is active.
C24_Witness ==
    /\ replicas # <<>>
    /\ replicas[1].activateCalled = 1
    /\ replicas[1].deactivateCalled = 1
    /\ ~replicas[1].published
    /\ replicas[2].published
    /\ \E i \in 1..Len(ignored) : ignored[i].movement.kind = "terminate_active"

(***************************************************************************)
(* C25.  Every movement that the processing stock or the TickTock stock    *)
(* passes to AddToSchedule while handling a movement at time t has         *)
(* OccursAt strictly greater than t (interrupt_process at t + q with       *)
(* q > 0, complete_request, increase_desired and reduce_desired at         *)
(* t + 1ns), so it can only execute after the current movement.            *)
(***************************************************************************)
FollowOnKinds ==
    {"interrupt_process", "complete_request", "increase_desired", "reduce_desired"}

C25_FollowOnStrictlyLater ==
    \A k \in 1..Len(calls) :
        calls[k].movement.kind \in FollowOnKinds =>
            calls[k].movement.occursAt > calls[k].current

(***************************************************************************)
(* C26.  The TickTock stock holds exactly one Autoscaler entity in every   *)
(* reachable state: Count() is always 1, Remove() returns the entity given *)
(* at construction without emptying the stock, and this holds after any    *)
(* number of autoscaler_tick movements.                                    *)
(***************************************************************************)
IsAutoscalerTick(x) == x.movement.kind = "autoscaler_tick"

C26_TickTockHoldsOne ==
    config # <<>> =>
        /\ TickTockCount = 1
        /\ TickTockEntitiesInStock = <<AutoscalerEntity>>
        /\ StockRemove(World, "Autoscaler Ticktock").entity = AutoscalerEntity
        /\ StockRemove(StockRemove(World, "Autoscaler Ticktock").world,
                       "Autoscaler Ticktock").entity = AutoscalerEntity
        /\ \A i \in 1..Len(completed) :
              IsAutoscalerTick(completed[i]) => completed[i].moved = AutoscalerEntity
        /\ \A i \in 1..Len(ignored) :
              IsAutoscalerTick(ignored[i]) => ignored[i].reason # FromStockIsEmpty

\* Two ticks have been executed.
C26_Witness ==
    /\ config # <<>>
    /\ Len(SelectSeq(completed, IsAutoscalerTick)) = 2
    /\ pc = "done"

(***************************************************************************)
(* C27.  For the processing stock, Count() equals the number of request    *)
(* entities the stock currently holds, including requests that have        *)
(* finished their CPU time and wait in terminated for their                *)
(* complete_request movement.                                              *)
(***************************************************************************)
RequestsHeld(p) ==
    Elems(p.processesActive) \cup Elems(p.processesOnCpu)
        \cup Elems(p.processesTerminated)

C27_CountIsRequestsHeld == RpsCount(rps) = Cardinality(RequestsHeld(rps))

(***************************************************************************)
(* C28.  When the driver executes a movement whose From stock yields the   *)
(* empty outcome (for the processing stock: Remove() returns nil because   *)
(* terminated is empty), the movement is recorded as ignored with reason   *)
(* FromStockIsEmpty, To.Add is not called, no stock changes, and the loop  *)
(* continues with the next movement.                                       *)
(***************************************************************************)
FromStockHasNothing(m) ==
    CASE m.from = "RequestsProcessing" -> rps.processesTerminated = <<>>
      [] m.from = "processesOnCpu" -> rps.processesOnCpu = <<>>
      [] m.from = "Autoscaler Ticktock" -> FALSE
      [] OTHER -> stocks[m.from] = <<>>

EmptyFromIsIgnored ==
    \A m \in Elems(mpq.heap) :
        (TurnExecutes(m) /\ FromStockHasNothing(m)) =>
            /\ ignored' = Append(ignored, [movement |-> m, reason |-> FromStockIsEmpty])
            /\ completed' = completed
            /\ stocks' = stocks
            /\ rps' = rps
            /\ reqs' = reqs
            /\ cpuUsage' = cpuUsage
            /\ replicas' = replicas
            /\ calls' = calls
            /\ runErr' = runErr
            /\ pc' = "running"
            /\ Elems(mpq'.heap) = Elems(mpq.heap) \ {m}

C28_EmptyFromStockIgnored == [][EmptyFromIsIgnored]_vars

\* A complete_request has just been ignored while a request waited in
\* active, and the run goes on with the movements still pending.
C28_Witness ==
    /\ pc = "running"
    /\ ignored # <<>>
    /\ ignored[Len(ignored)].movement.kind = "complete_request"
    /\ ignored[Len(ignored)].reason = FromStockIsEmpty
    /\ ignored[Len(ignored)].movement.occursAt = current
    /\ rps.processesActive # <<>>
    /\ \E m \in Elems(mpq.heap) : m.kind = "interrupt_process"

(***************************************************************************)
(* C29.  When Add fills an idle CPU, the request placed in onCpu is the    *)
(* request popped from the head of active (the earliest admitted one) and  *)
(* is the same request whose cpuSecondsConsumed was charged the quantum,   *)
(* also when the entity passed to Add is a different request than the head *)
(* of active.                                                              *)
(***************************************************************************)
\* Add has filled the CPU in this step: its interrupt is the newest call.
AddFillsCpu ==
    /\ pc = "running"
    /\ Len(calls') > Len(calls)
    /\ calls'[Len(calls')].movement.kind = "interrupt_process"

OnCpuIsPoppedAndCharged ==
    AddFillsCpu =>
        /\ Len(rps'.processesOnCpu) = 1
        /\ rps.processesActive # <<>> =>
              Head(rps'.processesOnCpu) = Head(rps.processesActive)
        /\ \A n \in 1..MaxRequests :
              reqs'[n].cpuSecondsConsumed # reqs[n].cpuSecondsConsumed =>
                  Head(rps'.processesOnCpu) = NewEntity("Request", n)

C29_OnCpuIsPoppedRequest == [][OnCpuIsPoppedAndCharged]_vars

(***************************************************************************)
(* C30.  On Add of a request at time now: if cpuSecondsRemaining > 0 the   *)
(* request is appended to active and no complete_request is scheduled;     *)
(* otherwise it is appended to terminated and exactly one complete_request *)
(* movement from the processing stock to the completion sink is passed to  *)
(* AddToSchedule at now + 1ns.  (The head of active may leave for the CPU  *)
(* in the same Add.)                                                       *)
(***************************************************************************)
\* The entity the From stock of m hands to the processing stock's Add.
EntityAdded(m) ==
    IF m.from = "processesOnCpu" THEN Head(rps.processesOnCpu)
    ELSE Head(stocks[m.from])

AddsRequest(m) ==
    /\ TurnExecutes(m)
    /\ m.to = "RequestsProcessing"
    /\ IF m.from = "processesOnCpu" THEN rps.processesOnCpu # <<>>
       ELSE m.from \in PlainStocks /\ stocks[m.from] # <<>>
    /\ EntityAdded(m).kind = "Request"

NewCompleteRequests ==
    {k \in (Len(calls) + 1)..Len(calls') :
        calls'[k].movement.kind = "complete_request"}

EnqueuedOrCompleted ==
    \A m \in Elems(mpq.heap) :
        AddsRequest(m) =>
            LET e == EntityAdded(m)
                remaining == reqs[e.number].cpuSecondsRequired
                                 - reqs[e.number].cpuSecondsConsumed
            IN  IF remaining > 0
                THEN /\ NewCompleteRequests = {}
                     /\ rps'.processesTerminated = rps.processesTerminated
                     /\ rps'.processesActive =
                            IF AddFillsCpu
                            THEN Tail(Append(rps.processesActive, e))
                            ELSE Append(rps.processesActive, e)
                ELSE /\ rps'.processesTerminated =
                            Append(rps.processesTerminated, e)
                     /\ rps'.processesActive =
                            IF AddFillsCpu THEN Tail(rps.processesActive)
                            ELSE rps.processesActive
                     /\ Cardinality(NewCompleteRequests) = 1
                     /\ \A k \in NewCompleteRequests :
                          /\ calls'[k].movement.occursAt = m.occursAt + Nanosecond
                          /\ calls'[k].movement.from = "RequestsProcessing"
                          /\ calls'[k].movement.to = "RequestsComplete"
                          /\ calls'[k].current = m.occursAt

C30_EnqueueOrComplete == [][EnqueuedOrCompleted]_vars

\* A request of more than one quantum, which Add appended to active after
\* its first quantum, has just been appended to terminated and its
\* complete_request offered for the next nanosecond.
C30_Witness ==
    /\ pc = "running"
    /\ rps.processesTerminated # <<>>
    /\ reqs[Head(rps.processesTerminated).number].cpuSecondsRequired
          > 200 * Millisecond
    /\ \E i \in 1..Len(completed) :
         /\ completed[i].movement.kind = "interrupt_process"
         /\ completed[i].moved = Head(rps.processesTerminated)
         /\ completed[i].movement.occursAt < current
    /\ \E k \in CallsOfKind("complete_request") :
         /\ calls[k].current = current
         /\ calls[k].movement.occursAt = current + Nanosecond

(***************************************************************************)
(* C31.  Each time the CPU is filled at time now with request r, the       *)
(* quantum is q = min(cpuSecondsRemaining(r), 200ms), r.cpuSecondsConsumed *)
(* is increased by exactly q at that moment, and one interrupt_process     *)
(* movement from onCpu to the processing stock is passed to AddToSchedule  *)
(* at now + q; no quantum exceeds 200ms.                                   *)
(***************************************************************************)
MaxQuantum == 200 * Millisecond

QuantumOf(re) ==
    IF re.cpuSecondsRequired - re.cpuSecondsConsumed < MaxQuantum
    THEN re.cpuSecondsRequired - re.cpuSecondsConsumed
    ELSE MaxQuantum

NewInterrupts ==
    {k \in (Len(calls) + 1)..Len(calls') :
        calls'[k].movement.kind = "interrupt_process"}

\* The quantum of the fill, for the request with number n.
FillHasQuantumOf(n) ==
    LET q == QuantumOf(reqs[n])
    IN  /\ q <= MaxQuantum
        /\ reqs'[n].cpuSecondsConsumed = reqs[n].cpuSecondsConsumed + q
        /\ Cardinality(NewInterrupts) = 1
        /\ \A k \in NewInterrupts :
              /\ calls'[k].movement.occursAt = current' + q
              /\ calls'[k].movement.from = "processesOnCpu"
              /\ calls'[k].movement.to = "RequestsProcessing"

C31_QuantumCharged ==
    [][AddFillsCpu => FillHasQuantumOf(Head(rps'.processesOnCpu).number)]_vars

(***************************************************************************)
(* C32.  A request's startTime is set to the current movement time by its  *)
(* first Add to a processing stock and is never changed by any later Add   *)
(* (re-admission after an interrupt) or by Remove.                         *)
(***************************************************************************)
AdmissionsOf(e) ==
    {i \in 1..Len(completed) :
        completed[i].movement.to = "RequestsProcessing" /\ completed[i].moved = e}

StartTimeIsFirstAdmission ==
    \A n \in 1..MaxRequests :
        LET adds == AdmissionsOf(NewEntity("Request", n))
        IN  IF adds = {} THEN reqs[n].startTime = <<>>
            ELSE \E i \in adds :
                    /\ \A j \in adds : i <= j
                    /\ reqs[n].startTime = <<completed[i].movement.occursAt>>

StartTimeKept ==
    \A n \in 1..MaxRequests :
        reqs[n].startTime # <<>> => reqs'[n].startTime = reqs[n].startTime

C32_StartTimeSetOnce == []StartTimeIsFirstAdmission /\ [][StartTimeKept]_vars

\* A request admitted at one time has been admitted again, after an
\* interrupt, at a later time, and has since left through Remove.
C32_Witness ==
    \E n \in 1..MaxRequests :
        /\ Cardinality(AdmissionsOf(NewEntity("Request", n))) >= 2
        /\ reqs[n].startTime # <<>>
        /\ reqs[n].startTime[1] < current
        /\ NewEntity("Request", n) \in Elems(stocks["RequestsComplete"])

(***************************************************************************)
(* C33.  cpuUsage.trim(now) removes exactly the intervals whose end is     *)
(* before now - window, moves the start of the remaining intervals that    *)
(* begin before now - window to now - window, leaves every other interval  *)
(* and the order as they were, and trimming the result again at the same   *)
(* now changes nothing.                                                    *)
(***************************************************************************)
EndsInWindow(slices, cutoff) == SelectSeq(slices, LAMBDA t : t[2] >= cutoff)

TrimmedAsClaimed(before, after, cutoff) ==
    LET kept == EndsInWindow(before, cutoff)
    IN  /\ Len(after) = Len(kept)
        /\ \A i \in 1..Len(kept) :
              /\ after[i][2] = kept[i][2]
              /\ after[i][1] = IF kept[i][1] < cutoff THEN cutoff ELSE kept[i][1]

UsageIsEvaluated ==
    /\ pc \in {"cpu-idle", "cpu-busy"}
    /\ pc' = pc
    /\ current' = current

C33_TrimKeepsWindow ==
    [][UsageIsEvaluated =>
         /\ TrimmedAsClaimed(cpuUsage, cpuUsage', current - CpuWindowMillis)
         /\ TrimmedAsClaimed(cpuUsage', cpuUsage', current - CpuWindowMillis)
         /\ CpuUsageTrim(cpuUsage', current, CpuWindowMillis) = cpuUsage']_vars

\* After a trim, one interval was removed, the next was cut inside and a
\* later one is whole.
C33_Witness ==
    /\ pc \in {"cpu-idle", "cpu-busy"}
    /\ sampled # <<>>
    /\ sampled.at = current
    /\ Len(cpuUsage) >= 2
    /\ cpuUsage[1][1] = current - CpuWindowMillis
    /\ cpuUsage[1][1] > 0
    /\ cpuUsage[1][2] - cpuUsage[1][1] = OtherMovementMillis
    /\ cpuUsage[2][2] - cpuUsage[2][1] = QuantumMillis

(***************************************************************************)
(* C34.  Add on the ticktock stock with an entity other than the           *)
(* autoscaler entity returns an error and has no side effect: Scale is     *)
(* not called, no stats are recorded, no movement is scheduled and no      *)
(* CPU-utilization sample is taken.                                        *)
(***************************************************************************)
CarriesForeignEntity(m) ==
    /\ TurnExecutes(m)
    /\ m.to = "Autoscaler Ticktock"
    /\ m.from \in PlainStocks
    /\ stocks[m.from] # <<>>
    /\ Head(stocks[m.from]) # AutoscalerEntity

ForeignAddChangesNothing(m) ==
    /\ runErr'
    /\ scaled' = scaled
    /\ stats' = stats
    /\ calls' = calls
    /\ Elems(mpq'.heap) = Elems(mpq.heap) \ {m}
    /\ stocks' = [stocks EXCEPT ![m.from] = Tail(@)]
    /\ completed' = completed

C34_ForeignEntityRejected ==
    [][\A m \in Elems(mpq.heap) :
          CarriesForeignEntity(m) => ForeignAddChangesNothing(m)]_vars

\* The request was refused after a tick that called Scale, offered a
\* movement and took a CPU-utilization sample.
C34_Witness ==
    /\ runErr
    /\ Len(stocks["RequestsRouting"]) < MaxRequests
    /\ scaled # <<>>
    /\ CallsOfKind("increase_desired") # {}
    /\ \E i \in 1..Len(stats) : stats[i].stat = "AppendCPUUtilization"

(***************************************************************************)
(* C35.  A consumer waiting in DequeueMovement on an empty queue goes on   *)
(* once another thread has called Close and then receives closed = true;   *)
(* when a movement was enqueued meanwhile it receives that movement; and   *)
(* in no interleaving of the three threads is a movement returned twice,   *)
(* or a nil movement returned with closed = false and no error.            *)
(***************************************************************************)
WaitingCanGoOn ==
    (pc = "blocked" /\ (IsClosed(mpq) \/ mpq.heap # <<>>)) => ENABLED ThreadWake

NothingReturnedTwice ==
    \A i, j \in 1..Len(ReturnedSoFar) :
        i # j => ReturnedSoFar[i].id # ReturnedSoFar[j].id

NilOnlyWhenClosed ==
    (pqOut.op = "dequeue" /\ pqOut.movement = NoMovement) =>
        (pqOut.closed \/ pqOut.err)

WaitEndsWith ==
    (pc = "blocked" /\ pc' = "queue") =>
        /\ pqOut'.op = "dequeue"
        /\ ~pqOut'.err
        /\ IF mpq.heap = <<>>
           THEN /\ IsClosed(mpq)
                /\ pqOut'.closed
                /\ pqOut'.movement = NoMovement
           ELSE /\ ~pqOut'.closed
                /\ pqOut'.movement \in Elems(mpq.heap)
                /\ \A x \in Elems(mpq.heap) :
                      pqOut'.movement.occursAt <= x.occursAt
                /\ Elems(mpq'.heap) = Elems(mpq.heap) \ {pqOut'.movement}

C35_BlockedConsumerReleased ==
    /\ [](WaitingCanGoOn /\ NothingReturnedTwice /\ NilOnlyWhenClosed)
    /\ [][WaitEndsWith]_vars

\* The consumer, having received a movement, waited on the empty queue and
\* was released by the Close of another thread.
C35_Witness ==
    /\ pqOut.op = "dequeue"
    /\ pqOut.waited
    /\ pqOut.closed
    /\ Len(pqOut.returned) >= 1
    /\ pqOut.before = <<>>
    /\ pc = "queue"

(***************************************************************************)
(* C36.  Progress: every request admitted to the processing stock whose    *)
(* remaining CPU work, with that of the requests ahead of it, fits before  *)
(* HaltTime has reached the completion sink when the run ends.  The work   *)
(* is taken to fit when the admission time plus the CPU demand of every    *)
(* request of the run, plus a margin for the completion movements, is at   *)
(* most HaltTime.                                                          *)
(***************************************************************************)
RECURSIVE CpuDemandUpTo(_)
CpuDemandUpTo(n) ==
    IF n = 0 THEN 0 ELSE reqs[n].cpuSecondsRequired + CpuDemandUpTo(n - 1)

CompletionMargin == 10 * Millisecond

WorkFitsBeforeHalt(n) ==
    /\ reqs[n].startTime # <<>>
    /\ reqs[n].startTime[1] + CpuDemandUpTo(MaxRequests) + CompletionMargin
          <= HaltTime

C36_AdmittedRequestsComplete ==
    (pc = "done" /\ ~runErr) =>
        \A n \in 1..MaxRequests :
            WorkFitsBeforeHalt(n) =>
                NewEntity("Request", n) \in Elems(stocks["RequestsComplete"])

(***************************************************************************)
(* C37.  Each request is moved to the completion sink by at most one       *)
(* completed complete_request movement, and the number of complete_request *)
(* movements the replica has passed to AddToSchedule equals the number of  *)
(* entities it has placed in terminated (those still there and those a     *)
(* completed complete_request has taken out).                              *)
(***************************************************************************)
CompletionsOf(e) ==
    {i \in 1..Len(completed) :
        completed[i].movement.kind = "complete_request" /\ completed[i].moved = e}

CompletionsDone ==
    {i \in 1..Len(completed) : completed[i].movement.kind = "complete_request"}

CompletedAtMostOnce ==
    \A n \in 1..MaxRequests :
        Cardinality(CompletionsOf(NewEntity("Request", n))) <= 1

OneCompleteRequestPerTerminated ==
    Cardinality(CallsOfKind("complete_request"))
        = Len(rps.processesTerminated) + Cardinality(CompletionsDone)

C37_CompletedOnce == CompletedAtMostOnce /\ OneCompleteRequestPerTerminated

(***************************************************************************)
(* C38.  Whenever the replica's onCpu stock is non-empty between two       *)
(* movements of the run, exactly one interrupt_process movement from that  *)
(* onCpu stock is pending in the schedule, also after AddToSchedule has    *)
(* refused a movement.                                                     *)
(***************************************************************************)
PendingInterrupts ==
    {i \in 1..Len(mpq.heap) :
        /\ mpq.heap[i].kind = "interrupt_process"
        /\ mpq.heap[i].from = "processesOnCpu"}

C38_OneInterruptPending ==
    (pc = "running" /\ rps.processesOnCpu # <<>>) =>
        Cardinality(PendingInterrupts) = 1

(***************************************************************************)
(* C39.  For every tick, the entities the tick adds to DesiredSource (one  *)
(* before each increase_desired movement it offers) are as many as the     *)
(* increase_desired movements accepted into the schedule, so DesiredSource *)
(* is empty again when the run has ended.                                  *)
(***************************************************************************)
OfferedByTick(i) ==
    {k \in CallsOfKind("increase_desired") : calls[k].current = scaled[i].at}

EveryIncreaseAccepted ==
    \A i \in 1..Len(scaled) :
        Cardinality(OfferedByTick(i))
            = Cardinality({k \in OfferedByTick(i) : calls[k].added})

C39_DesiredSourceDrained ==
    /\ EveryIncreaseAccepted
    /\ (pc = "done" /\ ~runErr) => stocks["DesiredSource"] = <<>>

(***************************************************************************)
(* C40.  In every reachable state EntitiesInStock() on the processing      *)
(* stock returns exactly the entities of active followed by those of       *)
(* onCpu: its length is Count() and none of its entries is nil.            *)
(***************************************************************************)
C40_EntitiesInStockIsLanes ==
    LET entities == RpsEntitiesInStock(rps)
    IN  /\ entities = rps.processesActive \o rps.processesOnCpu
        /\ Len(entities) = RpsCount(rps)
        /\ \A i \in 1..Len(entities) : entities[i] # NilEntity

=============================================================================
